---- MODULE Spec2Model ----
(***************************************************************************)
(* Model of the remote-helper engine of ngit: the transport selector and   *)
(* its error classifier (src/bin/git_remote_nostr/utils.rs), the fetch     *)
(* orchestrator and the repository identity resolver (src/client.rs) and   *)
(* the proposal push (src/sub_commands/push.rs).                           *)
(*                                                                         *)
(* Each subsystem has its own specification over its own variables; the    *)
(* variables of the other subsystems stay at their idle value.             *)
(***************************************************************************)
EXTENDS Integers, Sequences, FiniteSets, TLC

(***************************************************************************)
(* Generic helpers                                                         *)
(***************************************************************************)

\* str::contains: needle occurs in hay as a contiguous run of characters
Contains(hay, needle) ==
    \E i \in 1..(Len(hay) - Len(needle) + 1) :
        SubSeq(hay, i, i + Len(needle) - 1) = needle

SeqToSet(s) == { s[i] : i \in 1..Len(s) }

\* a collaborator that has not been asked
NoAnswer == [ok |-> FALSE, error |-> "not asked"]

(***************************************************************************)
(* STATE                                                                   *)
(***************************************************************************)

\* the driver that walks the candidate list of the transport selector
VARIABLES
    server_scheme,      \* scheme of the server url
    forced,             \* protocol forced by the decoded nostr url, or NoProtocol
    op,                   \* "read" (list, fetch) or "write" (push)
    protocols_to_attempt, \* the ordered candidate list
    pos,                  \* index of the candidate tried next
    attempts,             \* the attempts made so far, in order
    tstatus,              \* "off", "idle", "trying", "success", "failed"
    surfaced              \* the error handed to the caller

\* the two caches and get_repo_ref_from_cache
VARIABLES
    global_cache,     \* the events of the user's global cache
    local_cache,      \* the events of the repository's cache
    seed,             \* repo_coordinates: the coordinates the caller asks for
    maintainers,      \* HashSet<PublicKey> of get_repo_ref_from_cache
    new_coordinate,   \* its flag
    repo_events,      \* its Vec of announcement events
    rr_pc,            \* "off", "idle", "loop", "done"
    rr_passes,        \* passes of the loop made so far
    rr_result         \* the Result<RepoRef> it returned

\* fetch_all and its per-relay tasks
VARIABLES
    relay_store,      \* the events each relay holds
    fallback_relays,  \* Client.fallback_relays
    fpc,              \* "off", "idle", "resolving", "fanout", "returned", "panicked"
    fetch_no,         \* fetch_all calls made so far
    request,          \* the FetchRequest of the current fetch_all
    task,             \* per relay: the state of fetch_all_from_relay
    finished,         \* the relay tasks that ended, in the order they ended
    fetch_report,     \* the consolidated FetchReport fetch_all returned
    history           \* per returned fetch_all: what it found and stored

\* push: sub_commands::push::launch
VARIABLES
    most_recent_proposal_patch_chain, \* the proposal's patches, most recent first
    proposal_root_event,  \* id of the proposal's root event
    branch_tip,           \* commit id of the checked out branch
    args_force,           \* --force
    ahead_behind,         \* what get_commits_ahead_behind answered
    ancestor,             \* what ancestor_of answered
    ahead,                \* the commits to publish
    patch_events,         \* the patch events generated so far
    sent,                 \* the events handed to send_events
    ppc,                  \* "off", "idle", "login", "generate", "send", "done"
    outcome               \* how launch ended

\* the remote helper's list of proposals: get_open_proposals
VARIABLES
    lpc,              \* get_open_proposals: "off", "idle", "done"
    open_proposals,   \* the map it returned: entries (root event, patch chain)
    apc,              \* get_all_proposals: "off", "idle", "done"
    all_proposals,    \* the map it returned
    unloadable        \* ids of the proposals whose patch events the cache fails to load

\* the remote helper's lookup of a proposal by branch name
VARIABLES
    refstr,           \* the reference string looked up
    current_user,     \* the logged-in user's public key, or NoUser
    matched,          \* the entry find returned, or NotFound
    mpc               \* "off", "idle", "done"

\* the remote helper's reading of a batch of fetch commands
VARIABLES
    initial_oid,      \* the oid of the fetch command already read
    initial_refstr,   \* its reference string
    stdin,            \* the lines not read yet
    consumed,         \* the lines read so far
    batch,            \* the HashMap refstr -> oid, as a set of (refstr, oid)
    bpc               \* "off", "reading", "returned", "error"

\* join_with_and
VARIABLES
    join_items,       \* the slice passed in
    joined,           \* the string returned
    jpc               \* "off", "idle", "done"

tvars == <<server_scheme, forced, op, protocols_to_attempt, pos, attempts,
           tstatus, surfaced>>
cachevars == <<global_cache, local_cache>>
rrvars == <<seed, maintainers, new_coordinate, repo_events, rr_pc, rr_passes, rr_result>>
fvars == <<relay_store, fallback_relays, fpc, fetch_no, request, task, finished,
           fetch_report, history>>

pvars == <<most_recent_proposal_patch_chain, proposal_root_event, branch_tip,
           args_force, ahead_behind, ancestor, ahead, patch_events, sent,
           ppc, outcome>>

lvars == <<lpc, open_proposals, apc, all_proposals, unloadable>>

\* the bounded fan-out over the relays: stream::iter(futures)
\* .buffer_unordered(15).collect()
VARIABLES
    futures,          \* the per-relay tasks in the order of the iterator: for each
                      \* whether its loop ends ("ends") or not ("endless")
    started,          \* how many of them have been taken from the iterator
    in_flight,        \* how many tasks of each kind are being polled
    endless_rounds,   \* rounds made by the tasks whose loop does not end
    relay_reports,    \* how many results have been collected
    qpc               \* "off", "streaming", "done"

\* get_fetch_filters called on its own
VARIABLES
    filter_args,      \* the three sets passed in
    fetch_filters,    \* the filters returned
    gpc               \* "off", "idle", "done"

mvars == <<refstr, current_user, matched, mpc>>
bvars == <<initial_oid, initial_refstr, stdin, consumed, batch, bpc>>
jvars == <<join_items, joined, jpc>>
qvars == <<futures, started, in_flight, endless_rounds, relay_reports, qpc>>
gvars == <<filter_args, fetch_filters, gpc>>

\* the variables of the helper functions of utils.rs
xvars == <<mvars, bvars, jvars, qvars, gvars>>

vars == <<tvars, cachevars, rrvars, fvars, pvars, lvars, xvars>>

\* an absent Option value
NoUser == "no user"
NotFound == [id |-> "none"]

MatchIdle == refstr = "" /\ current_user = NoUser /\ matched = NotFound /\ mpc = "off"

BatchIdle ==
    /\ initial_oid = "" /\ initial_refstr = ""
    /\ stdin = <<>> /\ consumed = <<>> /\ batch = {} /\ bpc = "off"

JoinIdle == join_items = <<>> /\ joined = "" /\ jpc = "off"

BufferIdle ==
    /\ futures = <<>> /\ started = 0 /\ in_flight = [ends |-> 0, endless |-> 0]
    /\ endless_rounds = 0 /\ relay_reports = 0 /\ qpc = "off"

NoArgs == [repo_coordinates |-> {}, proposal_ids |-> {}, required_profiles |-> {}]

FiltersIdle == filter_args = NoArgs /\ fetch_filters = <<>> /\ gpc = "off"

HelpersIdle == MatchIdle /\ BatchIdle /\ JoinIdle /\ BufferIdle /\ FiltersIdle

(***************************************************************************)
(* TRANSPORT SELECTOR  (utils.rs 232-310)                                  *)
(***************************************************************************)

\* Option<ServerProtocol>::None of NostrUrlDecoded.protocol
NoProtocol == "None"

\* the ServerProtocol values utils.rs uses, and Git for "any other scheme"
ServerProtocol ==
    {"Filesystem", "Http", "Https", "Ftp", "Ssh", "Git", "UnauthHttp", "UnauthHttps"}

\* what CloneUrl::protocol() can answer for a server url
ServerSchemes == {"Filesystem", "Http", "Https", "Ftp", "Ssh", "Git"}

get_read_protocols_to_try_SshLast(server_protocol, protocol) ==
    IF server_protocol = "Filesystem" THEN <<"Filesystem">>
    ELSE IF protocol # NoProtocol THEN <<protocol>>
    ELSE IF server_protocol = "Http" THEN <<"UnauthHttp", "Http", "Ssh">>
    ELSE IF server_protocol = "Ftp" THEN <<"Ftp", "Ssh">>
    ELSE <<"UnauthHttps", "Https", "Ssh">>

get_read_protocols_to_try_HttpBeforeForced(server_protocol, protocol) ==
    IF server_protocol = "Filesystem" THEN <<"Filesystem">>
    ELSE IF server_protocol = "Http" THEN <<"UnauthHttp", "Ssh", "Http">>
    ELSE IF protocol # NoProtocol THEN <<protocol>>
    ELSE IF server_protocol = "Ftp" THEN <<"Ftp", "Ssh">>
    ELSE <<"UnauthHttps", "Ssh", "Https">>

\* utils.rs 233-258; server_protocol is server_url.protocol(), protocol is
\* decoded_nostr_url.protocol
get_read_protocols_to_try(server_protocol, protocol) ==
    IF server_protocol = "Filesystem" THEN <<"Filesystem">>
    ELSE IF protocol # NoProtocol THEN <<protocol>>
    ELSE IF server_protocol = "Http" THEN <<"UnauthHttp", "Ssh", "Http">>
    ELSE IF server_protocol = "Ftp" THEN <<"Ftp", "Ssh">>
    ELSE <<"UnauthHttps", "Ssh", "Https">>

get_write_protocols_to_try_FtpFirst(server_protocol, protocol) ==
    IF server_protocol = "Filesystem" THEN <<"Filesystem">>
    ELSE IF protocol # NoProtocol THEN <<protocol>>
    ELSE IF server_protocol = "Http" THEN <<"Ssh", "Http">>
    ELSE IF server_protocol = "Ftp" THEN <<"Ftp", "Ssh">>
    ELSE <<"Ssh", "Https">>

\* utils.rs 261-284
get_write_protocols_to_try(server_protocol, protocol) ==
    IF server_protocol = "Filesystem" THEN <<"Filesystem">>
    ELSE IF protocol # NoProtocol THEN <<protocol>>
    ELSE IF server_protocol = "Http" THEN <<"Ssh", "Http">>
    ELSE IF server_protocol = "Ftp" THEN <<"Ssh", "Ftp">>
    ELSE <<"Ssh", "Https">>

\* An anyhow::Error is its chain of messages, outermost context first.
\* The samples: the five messages the transport library gives for an
\* authentication failure, transport failures, near misses of the five
\* phrases, and authentication failures wrapped in an outer context.
ErrorSamples ==
    { [kind |-> "AuthRequired",     chain |-> <<"all authentication attempts failed">>],
      [kind |-> "HostKeyMismatch",  chain |-> <<"invalid or unknown remote ssh hostkey">>],
      [kind |-> "NoKeysAvailable",  chain |-> <<"no ssh keys found">>],
      [kind |-> "PermissionDenied", chain |-> <<"remote: Permission to a/b.git denied to c.">>],
      [kind |-> "RepoNotVisible",   chain |-> <<"remote: Repository not found.">>],
      [kind |-> "TransportError",   chain |-> <<"connection timeout">>],
      [kind |-> "TransportError",   chain |-> <<"failed to resolve address for host">>],
      [kind |-> "TransportError",   chain |-> <<"permission to socket refused">>],
      [kind |-> "TransportError",   chain |-> <<"repository not found in pack index">>],
      [kind |-> "TransportError",   chain |-> <<"">>],
      [kind |-> "TransportError",   chain |-> <<"no ssh key found">>],
      [kind |-> "AuthRequired",     chain |-> <<"failed to fetch", "all authentication attempts failed">>],
      [kind |-> "TransportError",   chain |-> <<"no ssh keys found: retrying", "connection timeout">>] }

NoError == [kind |-> "None", chain |-> <<"">>]

\* anyhow::Error::to_string(): the outermost message only
to_string(error) == error.chain[1]

error_might_be_authentication_related_NoRepo(error) ==
    LET error_str == to_string(error)
    IN  \E s \in { "no ssh keys found",
                   "invalid or unknown remote ssh hostkey",
                   "all authentication attempts failed",
                   "Permission to" } :
            Contains(error_str, s)

\* utils.rs 296-310
error_might_be_authentication_related(error) ==
    LET error_str == to_string(error)
    IN  \E s \in { "no ssh keys found",
                   "invalid or unknown remote ssh hostkey",
                   "all authentication attempts failed",
                   "Permission to",
                   "Repository not found" } :
            Contains(error_str, s)

fetch_or_list_error_is_not_authentication_failure_Inverted(error) ==
    error_might_be_authentication_related(error)

\* utils.rs 287-289
fetch_or_list_error_is_not_authentication_failure(error) ==
    ~error_might_be_authentication_related(error)

\* utils.rs 292-294
push_error_is_not_authentication_failure(error) ==
    ~error_might_be_authentication_related(error)

(***************************************************************************)
(* The driver that walks the candidate list (specification 4.7): the       *)
(* authentication-fallthrough rule and the SSH pin.                        *)
(***************************************************************************)
TransportIdle ==
    /\ server_scheme = "Https"
    /\ forced = NoProtocol
    /\ op = "read"
    /\ protocols_to_attempt = <<>>
    /\ pos = 0
    /\ attempts = <<>>
    /\ tstatus = "off"
    /\ surfaced = NoError

TransportInit ==
    /\ server_scheme \in ServerSchemes
    /\ forced \in ServerProtocol \cup {NoProtocol}
    /\ op \in {"read", "write"}
    /\ protocols_to_attempt = <<>>
    /\ pos = 0
    /\ attempts = <<>>
    /\ tstatus = "idle"
    /\ surfaced = NoError

\* the selector is asked for the candidates of the operation
SelectProtocols ==
    /\ tstatus = "idle"
    /\ protocols_to_attempt' =
           IF op = "read"
           THEN get_read_protocols_to_try(server_scheme, forced)
           ELSE get_write_protocols_to_try(server_scheme, forced)
    /\ pos' = 1
    /\ tstatus' = "trying"
    /\ UNCHANGED <<server_scheme, forced, op, attempts, surfaced>>
    /\ UNCHANGED <<cachevars, rrvars, fvars, pvars, lvars, xvars>>

\* the attempt over the current candidate completes the operation
AttemptSucceeds ==
    /\ tstatus = "trying"
    /\ attempts' = Append(attempts,
           [protocol |-> protocols_to_attempt[pos], ok |-> TRUE,
            error |-> NoError, authenticated |-> TRUE])
    /\ tstatus' = "success"
    /\ UNCHANGED <<server_scheme, forced, op, protocols_to_attempt, pos, surfaced>>
    /\ UNCHANGED <<cachevars, rrvars, fvars, pvars, lvars, xvars>>

\* whether the driver may go on to the next candidate after `error`
MayTryNext(operation, error, ssh_authenticated) ==
    /\ IF operation = "read"
       THEN fetch_or_list_error_is_not_authentication_failure(error)
       ELSE push_error_is_not_authentication_failure(error)
    /\ ~ssh_authenticated

\* the attempt over the current candidate fails with `error`;
\* ssh_authenticated: the candidate is ssh and its session had authenticated
AttemptFails(error, ssh_authenticated) ==
    /\ tstatus = "trying"
    /\ ssh_authenticated =>
          /\ protocols_to_attempt[pos] = "Ssh"
          /\ error.kind = "TransportError"
    /\ attempts' = Append(attempts,
           [protocol |-> protocols_to_attempt[pos], ok |-> FALSE,
            error |-> error, authenticated |-> ssh_authenticated])
    /\ IF MayTryNext(op, error, ssh_authenticated) /\ pos < Len(protocols_to_attempt)
       THEN /\ pos' = pos + 1
            /\ UNCHANGED <<tstatus, surfaced>>
       ELSE /\ tstatus' = "failed"
            /\ surfaced' = error
            /\ UNCHANGED pos
    /\ UNCHANGED <<server_scheme, forced, op, protocols_to_attempt>>
    /\ UNCHANGED <<cachevars, rrvars, fvars, pvars, lvars, xvars>>

SomeAttemptFails ==
    \E error \in ErrorSamples, ssh_authenticated \in BOOLEAN :
        AttemptFails(error, ssh_authenticated)

TransportNext ==
    \/ SelectProtocols
    \/ AttemptSucceeds
    \/ SomeAttemptFails

(***************************************************************************)
(* SIGNED EVENTS, FILTERS, CACHES  (client.rs)                             *)
(***************************************************************************)

REPO_REF_KIND == "RepoAnnouncement"
PATCH_KIND == "Patch"

\* sub_commands::list::status_kinds()
status_kinds == {"GitStatusOpen", "GitStatusApplied", "GitStatusClosed", "GitStatusDraft"}

\* Option<Timestamp>::None
NoTimestamp == 0 - 1

PublicKeys == {"X", "Y", "Z"}

RelayUrls == {"r1", "r2"}

\* nostr Coordinate; its relays field is always vec![] in client.rs
Coordinate(kind, public_key, identifier) ==
    [kind |-> kind, public_key |-> public_key, identifier |-> identifier]

Ev(id, kind, pubkey, created_at, identifier, listed, urls, a_tags, e_tags, root) ==
    [id |-> id, kind |-> kind, pubkey |-> pubkey, created_at |-> created_at,
     identifier |-> identifier, maintainers |-> listed, relays |-> urls,
     a_tags |-> a_tags, e_tags |-> e_tags, root |-> root]

CX == Coordinate(REPO_REF_KIND, "X", "demo")
CY == Coordinate(REPO_REF_KIND, "Y", "demo")
CZ == Coordinate(REPO_REF_KIND, "Z", "demo")

\* The signed events a relay or a cache may hold: announcements of the repo
\* "demo" by X (an older and a newer one) and by Y, a proposal root with a
\* patch, a revision root, a root tagged with Y's coordinate only, a status,
\* a deletion of the patch and a profile.
EventSamples ==
    { Ev("a1", REPO_REF_KIND, "X", 1, "demo", {"X", "Y"}, {"r1"}, {}, {}, FALSE),
      Ev("a2", REPO_REF_KIND, "Y", 2, "demo", {"X", "Y"}, {"r2"}, {}, {}, FALSE),
      Ev("a3", REPO_REF_KIND, "X", 3, "demo", {"X"}, {"r1", "r2"}, {}, {}, FALSE),
      Ev("p0", PATCH_KIND, "Z", 4, "", {}, {}, {CX}, {}, TRUE),
      Ev("p1", PATCH_KIND, "Z", 5, "", {}, {}, {CX}, {"p0"}, FALSE),
      Ev("pY", PATCH_KIND, "Z", 6, "", {}, {}, {CY}, {}, TRUE),
      Ev("rv", PATCH_KIND, "Z", 7, "", {}, {}, {CX}, {"p0"}, TRUE),
      Ev("s1", "GitStatusClosed", "X", 8, "", {}, {}, {}, {"p0"}, FALSE),
      Ev("d1", "EventDeletion", "Z", 9, "", {}, {}, {}, {"p1"}, FALSE),
      Ev("m1", "Metadata", "Z", 10, "", {}, {}, {}, {}, FALSE) }

Ids(events) == { e.id : e \in events }

\* a filter field that is not set
Unset == [on |-> FALSE, of |-> {}]

\* a filter field set to the values `of`
Only(values) == [on |-> TRUE, of |-> values]

Filter(kinds, authors, identifiers, a, e) ==
    [kinds |-> kinds, authors |-> authors, identifiers |-> identifiers, a |-> a, e |-> e]

\* nostr filter matching: every set field must match, one of its values suffices
Matches(event, filter) ==
    /\ event.kind \in filter.kinds
    /\ filter.authors.on => event.pubkey \in filter.authors.of
    /\ filter.identifiers.on => event.identifier \in filter.identifiers.of
    /\ filter.a.on => event.a_tags \cap filter.a.of # {}
    /\ filter.e.on => event.e_tags \cap filter.e.of # {}

MatchesAny(event, filters) == \E i \in 1..Len(filters) : Matches(event, filters[i])

get_filter_repo_events_AnyAuthor(repo_coordinates) ==
    Filter({REPO_REF_KIND},
           Unset,
           Only({ c.identifier : c \in repo_coordinates }),
           Unset, Unset)

\* client.rs 1011-1026
get_filter_repo_events(repo_coordinates) ==
    Filter({REPO_REF_KIND},
           Only({ c.public_key : c \in repo_coordinates }),
           Only({ c.identifier : c \in repo_coordinates }),
           Unset, Unset)

get_fetch_filters_NoStatuses(repo_coordinates, proposal_ids, required_profiles) ==
    (IF repo_coordinates = {} THEN <<>>
     ELSE << get_filter_repo_events(repo_coordinates),
             Filter({PATCH_KIND, "EventDeletion"}, Unset, Unset, Only(repo_coordinates), Unset) >>)
    \o
    (IF proposal_ids = {} THEN <<>>
     ELSE << Filter({PATCH_KIND, "EventDeletion"}, Unset, Unset, Unset, Only(proposal_ids)) >>)
    \o
    (IF required_profiles = {} THEN <<>>
     ELSE << Filter({"Metadata", "RelayList"}, Only(required_profiles), Unset, Unset, Unset) >>)

\* client.rs 963-1009
get_fetch_filters(repo_coordinates, proposal_ids, required_profiles) ==
    (IF repo_coordinates = {} THEN <<>>
     ELSE << get_filter_repo_events(repo_coordinates),
             Filter({PATCH_KIND, "EventDeletion"}, Unset, Unset, Only(repo_coordinates), Unset) >>)
    \o
    (IF proposal_ids = {} THEN <<>>
     ELSE << Filter({PATCH_KIND, "EventDeletion"} \cup status_kinds, Unset, Unset, Unset,
                    Only(proposal_ids)) >>)
    \o
    (IF required_profiles = {} THEN <<>>
     ELSE << Filter({"Metadata", "RelayList"}, Only(required_profiles), Unset, Unset, Unset) >>)

\* sub_commands::send::event_is_patch_set_root: a patch that carries the root tag
event_is_patch_set_root(event) == event.kind = PATCH_KIND /\ event.root

\* a sequence with `x` put after the elements whose created_at is not greater
RECURSIVE InsertByCreatedAt(_, _)
InsertByCreatedAt(sorted, x) ==
    IF sorted = <<>> THEN <<x>>
    ELSE IF Head(sorted).created_at <= x.created_at
         THEN <<Head(sorted)>> \o InsertByCreatedAt(Tail(sorted), x)
         ELSE <<x>> \o sorted

\* Vec::sort_by_key(|e| e.created_at): stable, ascending
RECURSIVE sort_by_created_at(_)
sort_by_created_at(events) ==
    IF events = <<>> THEN <<>>
    ELSE InsertByCreatedAt(sort_by_created_at(SubSeq(events, 1, Len(events) - 1)),
                           events[Len(events)])

\* the events of a set, oldest first
RECURSIVE Ascending(_)
Ascending(events) ==
    IF events = {} THEN <<>>
    ELSE LET first == CHOOSE x \in events : \A y \in events : x.created_at <= y.created_at
         IN  <<first>> \o Ascending(events \ {first})

Reverse(s) == [i \in 1..Len(s) |-> s[Len(s) + 1 - i]]

\* NostrDatabase::query(filters, Order::Asc) on a cache (client.rs 652-674)
query(cache, filters) == Ascending({ e \in cache : MatchesAny(e, filters) })

\* NostrDatabase::negentropy_items(filter): the ids of the matching events
negentropy_items(cache, filter) == { e.id : e \in { x \in cache : Matches(x, filter) } }

\* NostrDatabase::save_event (client.rs 676-693): idempotent on the id
save_event(cache, event) == cache \cup {event}

(***************************************************************************)
(* REPOSITORY IDENTITY RESOLVER: get_repo_ref_from_cache  (client.rs 695)  *)
(***************************************************************************)

\* passes of the resolver's loop the model follows
MaxPasses == 3

NoResult == [ok |-> FALSE, error |-> "none"]

SeedChoices == { {CX}, {CX, CY} }

\* RepoRef::try_from(event) succeeds on a repository announcement
try_from_ok(event) == event.kind = REPO_REF_KIND

\* RepoRef::try_from(event): identifier, maintainers and relays of the announcement
try_from(event) ==
    [identifier |-> event.identifier, maintainers |-> event.maintainers,
     relays |-> event.relays]

\* Iterator::find on a Vec: the first element that satisfies the test
FirstBy(events, author) ==
    events[CHOOSE i \in 1..Len(events) :
              /\ events[i].pubkey = author
              /\ \A j \in 1..(i - 1) : events[j].pubkey # author]

\* client.rs 728-757: what get_repo_ref_from_cache returns once its loop ended
build_repo_ref(all_events, all_maintainers) ==
    LET sorted == sort_by_created_at(all_events)
    IN  IF sorted = <<>>
        THEN [ok |-> FALSE, error |-> "no repo events at specified coordinates"]
        ELSE LET repo_ref == try_from(sorted[1])
                 with_event == { m \in all_maintainers :
                                   \E i \in 1..Len(sorted) : sorted[i].pubkey = m }
             IN  [ok |-> TRUE,
                  identifier |-> repo_ref.identifier,
                  relays |-> repo_ref.relays,
                  maintainers |-> all_maintainers,
                  events |-> { [coordinate |-> Coordinate(FirstBy(sorted, m).kind, m,
                                                          FirstBy(sorted, m).identifier),
                                event |-> FirstBy(sorted, m)] : m \in with_event }]

RepoRefIdle ==
    /\ seed = {}
    /\ maintainers = {}
    /\ new_coordinate = FALSE
    /\ repo_events = <<>>
    /\ rr_pc = "off"
    /\ rr_passes = 0
    /\ rr_result = NoResult

\* client.rs 699-705: the state before the loop
EnterRepoRef(repo_coordinates) ==
    /\ seed' = repo_coordinates
    /\ maintainers' = { c.public_key : c \in repo_coordinates }
    /\ new_coordinate' = FALSE
    /\ repo_events' = <<>>
    /\ rr_pc' = "loop"
    /\ rr_passes' = 0
    /\ rr_result' = NoResult

\* client.rs 706-727: one pass of the loop, and 728-757 when the loop ends
RepoRefPass ==
    /\ rr_pc = "loop"
    /\ rr_passes < MaxPasses
    /\ LET filter == get_filter_repo_events(seed)
           events == query(global_cache, <<filter>>) \o query(local_cache, <<filter>>)
           parsed == SelectSeq(events, try_from_ok)
           found == UNION { try_from(parsed[i]).maintainers : i \in 1..Len(parsed) }
           inserted == found \ maintainers
           flag == new_coordinate \/ inserted # {}
       IN  /\ maintainers' = maintainers \cup found
           /\ new_coordinate' = flag
           /\ repo_events' = repo_events \o parsed
           /\ rr_passes' = rr_passes + 1
           /\ IF ~flag
              THEN /\ rr_pc' = "done"
                   /\ rr_result' = build_repo_ref(repo_events \o parsed, maintainers \cup found)
              ELSE UNCHANGED <<rr_pc, rr_result>>
    /\ UNCHANGED <<seed, global_cache, local_cache>>
    /\ UNCHANGED <<tvars, fvars, pvars, lvars, xvars>>

(***************************************************************************)
(* FETCH ORCHESTRATOR: fetch_all, fetch_all_from_relay  (client.rs)        *)
(***************************************************************************)

\* rounds of one relay's loop the model follows
MaxRounds == 3

\* fetch_all calls the model follows
MaxFetches == 2

\* copies of events the relays hold between them
MaxStored == 2

\* FetchReport::default() (client.rs 1028-1038)
EmptyReport ==
    [repo_coordinates |-> <<>>, updated_repo_announcements |-> <<>>,
     proposals |-> {}, commits |-> {}, statuses |-> {}, contributor_profiles |-> {}]

NoRequest ==
    [repo_coordinates |-> {}, proposals |-> {}, contributor_profiles |-> {},
     existing_events |-> {}]

NoTask ==
    [pc |-> "wait", fresh_coordinates |-> {}, fresh_proposal_roots |-> {},
     fresh_authors |-> {}, report |-> EmptyReport, round |-> 0, queries |-> <<>>]

\* RepoRef::coordinates(): one coordinate per maintainer
coordinates(repo_ref) ==
    { Coordinate(REPO_REF_KIND, m, repo_ref.identifier) : m \in repo_ref.maintainers }

\* RepoRef::coordinates_with_timestamps(): each coordinate with the created_at
\* of the maintainer's announcement in repo_ref.events, if it has one
coordinates_with_timestamps(repo_ref) ==
    { [c |-> c,
       t |-> IF \E x \in repo_ref.events : x.coordinate = c
             THEN (CHOOSE x \in repo_ref.events : x.coordinate = c).event.created_at
             ELSE NoTimestamp] : c \in coordinates(repo_ref) }

\* client.rs 798-850: the FetchRequest create_relays_request builds
build_request(repo_ref, repo_coordinates, cache) ==
    LET coords == IF repo_ref.ok THEN coordinates(repo_ref) ELSE repo_coordinates
        proposals == negentropy_items(cache,
                        Filter({PATCH_KIND}, Unset, Unset, Only(coords), Unset))
        filters == get_fetch_filters(coords, proposals, {})
    IN  [repo_coordinates |->
            IF repo_ref.ok THEN coordinates_with_timestamps(repo_ref)
            ELSE { [c |-> c, t |-> NoTimestamp] : c \in repo_coordinates },
         proposals |-> proposals,
         contributor_profiles |-> {},
         existing_events |->
            UNION { negentropy_items(cache, filters[i]) : i \in 1..Len(filters) }]

\* client.rs 865-867, 898-901: the request names the coordinate
in_request(req, public_key, identifier) ==
    \E ct \in req.repo_coordinates :
        ct.c.identifier = identifier /\ ct.c.public_key = public_key

\* client.rs 863-911: a fetched repository announcement
process_announcement(event, req, st) ==
    LET new_c == ~in_request(req, event.pubkey, event.identifier)
        update_to_existing ==
            /\ ~new_c
            /\ \E ct \in req.repo_coordinates :
                  /\ ct.c.identifier = event.identifier
                  /\ ct.c.public_key = event.pubkey
                  /\ ct.t # NoTimestamp
                  /\ event.created_at > ct.t
        c == Coordinate(event.kind, event.pubkey, event.identifier)
        repo_ref == try_from(event)
        new_maintainers ==
            IF try_from_ok(event)
            THEN { Coordinate(event.kind, m, repo_ref.identifier) :
                     m \in { k \in repo_ref.maintainers :
                               ~in_request(req, k, repo_ref.identifier) } }
            ELSE {}
    IN  [st EXCEPT
           !.global = save_event(@, event),
           !.fresh_coordinates = (IF new_c THEN @ \cup {c} ELSE @) \cup new_maintainers,
           !.report.repo_coordinates = IF new_c THEN Append(@, c) ELSE @,
           !.report.updated_repo_announcements =
               IF update_to_existing THEN Append(@, [c |-> c, t |-> event.created_at]) ELSE @]

\* client.rs 853-927; st holds the two caches, the fresh sets and the report
process_fetched_event(event, req, st) ==
    IF event.id \in req.existing_events THEN st
    ELSE LET saved == [st EXCEPT !.local = save_event(@, event)]
         IN  IF event.kind = REPO_REF_KIND
                THEN process_announcement(event, req, saved)
             ELSE IF event_is_patch_set_root(event)
                THEN [saved EXCEPT !.fresh_proposal_roots = @ \cup {event.id},
                                   !.report.proposals = @ \cup {event.id}]
             ELSE IF ~(\E id \in event.e_tags : id \in saved.report.proposals)
                THEN (IF event.kind = PATCH_KIND
                         THEN [saved EXCEPT !.report.commits = @ \cup {event.id}]
                      ELSE IF event.kind \in status_kinds
                         THEN [saved EXCEPT !.report.statuses = @ \cup {event.id}]
                      ELSE saved)
             ELSE IF event.kind = "Metadata"
                THEN [saved EXCEPT !.report.contributor_profiles = @ \cup {event.pubkey},
                                   !.global = save_event(@, event)]
             ELSE saved

\* client.rs 470-481: the events of one response, in the order received
RECURSIVE process_events(_, _, _)
process_events(events, req, st) ==
    IF events = <<>> THEN st
    ELSE process_events(Tail(events), req, process_fetched_event(Head(events), req, st))

\* client.rs 932-936
RECURSIVE merge_coordinates(_, _)
merge_coordinates(into, from) ==
    IF from = <<>> THEN into
    ELSE merge_coordinates(
            IF \E i \in 1..Len(into) : into[i] = Head(from) THEN into
            ELSE Append(into, Head(from)),
            Tail(from))

RECURSIVE merge_updates_KeepLatestSeen(_, _)
merge_updates_KeepLatestSeen(into, from) ==
    IF from = <<>> THEN into
    ELSE LET u == Head(from)
         IN  merge_updates_KeepLatestSeen(
                IF \E i \in 1..Len(into) : into[i].c = u.c
                THEN LET i == CHOOSE k \in 1..Len(into) : into[k].c = u.c
                     IN  [into EXCEPT ![i] = u]
                ELSE Append(into, u),
                Tail(from))

\* client.rs 937-950
RECURSIVE merge_updates(_, _)
merge_updates(into, from) ==
    IF from = <<>> THEN into
    ELSE LET u == Head(from)
         IN  merge_updates(
                IF \E i \in 1..Len(into) : into[i].c = u.c
                THEN LET i == CHOOSE k \in 1..Len(into) :
                                 /\ into[k].c = u.c
                                 /\ \A j \in 1..(k - 1) : into[j].c # u.c
                     IN  IF u.t > into[i].t THEN [into EXCEPT ![i] = u] ELSE into
                ELSE Append(into, u),
                Tail(from))

\* client.rs 929-962; reports: the reports of the relay tasks that returned Ok
RECURSIVE consolidate_onto(_, _)
consolidate_onto(report, reports) ==
    IF reports = <<>> THEN report
    ELSE LET relay_report == Head(reports)
         IN  consolidate_onto(
                [report EXCEPT
                   !.repo_coordinates = merge_coordinates(@, relay_report.repo_coordinates),
                   !.updated_repo_announcements =
                       merge_updates(@, relay_report.updated_repo_announcements),
                   !.proposals = @ \cup relay_report.proposals,
                   !.commits = @ \cup relay_report.commits,
                   !.statuses = @ \cup relay_report.statuses],
                Tail(reports))

consolidate_fetch_reports(reports) == consolidate_onto(EmptyReport, reports)

\* the fallback relays a client may be configured with
FallbackChoices == { {}, {"r1"}, {"r1", "r2"} }

\* the relays hold at most MaxStored copies of events between them; the
\* caches are empty
FetchInit ==
    /\ relay_store \in [RelayUrls -> SUBSET EventSamples]
    /\ Cardinality(relay_store["r1"]) + Cardinality(relay_store["r2"]) <= MaxStored
    /\ fallback_relays \in FallbackChoices
    /\ seed \in SeedChoices
    /\ global_cache = {}
    /\ local_cache = {}
    /\ maintainers = {}
    /\ new_coordinate = FALSE
    /\ repo_events = <<>>
    /\ rr_pc = "off"
    /\ rr_passes = 0
    /\ rr_result = NoResult
    /\ fpc = "idle"
    /\ fetch_no = 0
    /\ request = NoRequest
    /\ task = [r \in RelayUrls |-> NoTask]
    /\ finished = <<>>
    /\ fetch_report = EmptyReport
    /\ history = <<>>

\* client.rs 288-301 and 765: fetch_all is called and create_relays_request
\* enters get_repo_ref_from_cache
FetchAll ==
    /\ fpc \in {"idle", "returned"}
    /\ fetch_no < MaxFetches
    /\ EnterRepoRef(seed)
    /\ fpc' = "resolving"
    /\ fetch_no' = fetch_no + 1
    /\ request' = NoRequest
    /\ task' = [r \in RelayUrls |-> NoTask]
    /\ finished' = <<>>
    /\ UNCHANGED <<relay_store, fallback_relays, fetch_report, history>>
    /\ UNCHANGED <<cachevars, tvars, pvars, lvars, xvars>>

\* client.rs 767-850 and 302-390: the relay set and the request are built and
\* one fetch_all_from_relay is started per relay (client.rs 413-423)
CreateRelaysRequest ==
    /\ fpc = "resolving"
    /\ rr_pc = "done"
    /\ LET relays == fallback_relays \cup (IF rr_result.ok THEN rr_result.relays ELSE {})
           req == build_request(rr_result, seed, local_cache)
       IN  IF relays = {}
           THEN /\ fpc' = "panicked"
                /\ UNCHANGED <<request, task>>
           ELSE /\ fpc' = "fanout"
                /\ request' = req
                /\ task' = [r \in RelayUrls |->
                             IF r \in relays
                             THEN [NoTask EXCEPT
                                     !.pc = "connect",
                                     !.fresh_coordinates = { ct.c : ct \in req.repo_coordinates },
                                     !.fresh_proposal_roots = req.proposals,
                                     !.fresh_authors = req.contributor_profiles]
                             ELSE NoTask]
    /\ UNCHANGED <<relay_store, fallback_relays, fetch_no, finished, fetch_report, history>>
    /\ UNCHANGED <<cachevars, rrvars, tvars, pvars, lvars, xvars>>

\* client.rs 437: the connection to the relay is made
RelayConnect(r) ==
    /\ fpc = "fanout"
    /\ task[r].pc = "connect"
    /\ task' = [task EXCEPT ![r].pc = "loop"]
    /\ UNCHANGED <<relay_store, fallback_relays, fpc, fetch_no, request, finished,
                   fetch_report, history>>
    /\ UNCHANGED <<cachevars, rrvars, tvars, pvars, lvars, xvars>>

\* client.rs 437, 466-467: connecting or asking for the events fails (timeout)
\* and fetch_all_from_relay returns the error
RelayFails(r) ==
    /\ fpc = "fanout"
    /\ task[r].pc \in {"connect", "loop"}
    /\ task' = [task EXCEPT ![r].pc = "err"]
    /\ finished' = Append(finished, r)
    /\ UNCHANGED <<relay_store, fallback_relays, fpc, fetch_no, request, fetch_report, history>>
    /\ UNCHANGED <<cachevars, rrvars, tvars, pvars, lvars, xvars>>

\* client.rs 443-486: one round of the loop; the relay answers with the events
\* it holds that match a filter, oldest or newest first
RelayRound(r, newest_first) ==
    /\ fpc = "fanout"
    /\ task[r].pc = "loop"
    /\ task[r].round < MaxRounds
    /\ LET t == task[r]
           filters == get_fetch_filters(t.fresh_coordinates, t.fresh_proposal_roots,
                                        t.fresh_authors)
           matching == query(relay_store[r], filters)
           events == IF newest_first THEN Reverse(matching) ELSE matching
           st == process_events(events, request,
                    [local |-> local_cache, global |-> global_cache,
                     fresh_coordinates |-> {}, fresh_proposal_roots |-> {},
                     report |-> t.report])
           break == st.fresh_coordinates = {} /\ st.fresh_proposal_roots = {}
       IN  /\ local_cache' = st.local
           /\ global_cache' = st.global
           /\ task' = [task EXCEPT ![r] =
                         [pc |-> IF break THEN "ok" ELSE "loop",
                          fresh_coordinates |-> st.fresh_coordinates,
                          fresh_proposal_roots |-> st.fresh_proposal_roots,
                          fresh_authors |-> {},
                          report |-> st.report,
                          round |-> t.round + 1,
                          queries |-> Append(t.queries,
                              [fresh_coordinates |-> t.fresh_coordinates,
                               fresh_proposal_roots |-> t.fresh_proposal_roots,
                               fresh_authors |-> t.fresh_authors])]]
           /\ finished' = IF break THEN Append(finished, r) ELSE finished
    /\ UNCHANGED <<relay_store, fallback_relays, fpc, fetch_no, request, fetch_report, history>>
    /\ UNCHANGED <<rrvars, tvars, pvars, lvars, xvars>>

SomeRelayConnects == \E r \in RelayUrls : RelayConnect(r)

SomeRelayFails == \E r \in RelayUrls : RelayFails(r)

SomeRelayRound == \E r \in RelayUrls, newest_first \in BOOLEAN : RelayRound(r, newest_first)

OkReports_AllEnded(ended) == [i \in 1..Len(ended) |-> task[ended[i]].report]

\* the reports of the relay tasks that returned Ok, in the order they ended
RECURSIVE OkReports(_)
OkReports(ended) ==
    IF ended = <<>> THEN <<>>
    ELSE (IF task[Head(ended)].pc = "ok" THEN <<task[Head(ended)].report>> ELSE <<>>)
         \o OkReports(Tail(ended))

\* client.rs 392-402: every relay task ended; the reports are consolidated
FetchAllReturn ==
    /\ fpc = "fanout"
    /\ \A r \in RelayUrls : task[r].pc \in {"wait", "ok", "err"}
    /\ LET report == consolidate_fetch_reports(OkReports(finished))
       IN  /\ fetch_report' = report
           /\ history' = Append(history,
                 [report |-> report,
                  relays |-> { r \in RelayUrls : task[r].pc # "wait" },
                  failed |-> { r \in RelayUrls : task[r].pc = "err" },
                  local |-> local_cache,
                  global |-> global_cache])
    /\ fpc' = "returned"
    /\ UNCHANGED <<relay_store, fallback_relays, fetch_no, request, task, finished>>
    /\ UNCHANGED <<cachevars, rrvars, tvars, pvars, lvars, xvars>>

FetchNext ==
    \/ FetchAll
    \/ RepoRefPass
    \/ CreateRelaysRequest
    \/ SomeRelayConnects
    \/ SomeRelayFails
    \/ SomeRelayRound
    \/ FetchAllReturn

(***************************************************************************)
(* PROPOSAL PUSH: sub_commands::push::launch  (push.rs 106-203)            *)
(***************************************************************************)

\* commits the adapter may report ahead of the proposal
MaxAhead == 2

\* commit ids: the base of the proposal, the commits of its patches, commits
\* made on top of them and a commit of another history
Commits == {"base", "c1", "c2", "c3", "c4", "z9"}

\* commits between the proposal and the branch tip
BetweenCommits == <<"n1", "n2", "n3">>

\* a patch event of the proposal: its id, its commit and parent-commit tags
\* and the event ids it references
Patch(id, commit, parent_commit, e_tags) ==
    [id |-> id, commit |-> commit, parent_commit |-> parent_commit, e_tags |-> e_tags]

\* the chains get_most_recent_patch_with_ancestors may return, most recent
\* patch first; the proposal root is the first patch or a cover letter "P"
ChainSamples ==
    { [root |-> "q1", chain |-> << Patch("q1", "c1", "base", {}) >>],
      [root |-> "q1", chain |-> << Patch("q2", "c2", "c1", {"q1"}),
                                   Patch("q1", "c1", "base", {}) >>],
      [root |-> "P",  chain |-> << Patch("q1", "c1", "base", {"P"}) >>],
      [root |-> "P",  chain |-> << Patch("q2", "c2", "c1", {"P", "q1"}),
                                   Patch("q1", "c1", "base", {"P"}) >>] }

\* Result<(Vec<Sha1Hash>, Vec<Sha1Hash>)> of Repo::get_commits_ahead_behind
\* for a chain whose tip is not the branch tip: an error, or the commits ahead
\* (they end at the branch tip) and the commits behind (the most recent
\* commits of the chain), not both empty
AheadBehindAnswers(chain, tip) ==
    { [ok |-> FALSE, error |-> "no shared ancestor"] }
    \cup { [ok |-> TRUE,
            ahead |-> IF a = 0 THEN <<>> ELSE SubSeq(BetweenCommits, 1, a - 1) \o <<tip>>,
            behind |-> [i \in 1..b |-> chain[i].commit]] :
             <<a, b>> \in ((0..MaxAhead) \X (0..Len(chain))) \ {<<0, 0>>} }

\* Result<bool> of Repo::ancestor_of
AncestorAnswers ==
    { [ok |-> TRUE, value |-> TRUE], [ok |-> TRUE, value |-> FALSE],
      [ok |-> FALSE, error |-> "ancestor_of failed"] }

\* how launch ended: Ok(()) or the error it returned
Outcome(kind, behind, error) == [kind |-> kind, behind |-> behind, error |-> error]

NoOutcome == Outcome("none", 0, "")

\* Option<EventId>::None
NoEvent == "None"

\* push.rs 85-104: commit of the first patch of the chain, parent-commit of the last
most_recent_patch_commit_id(chain) == chain[1].commit

proposal_base_commit_id(chain) == chain[Len(chain)].parent_commit

launch_decision_NoAheadTest(chain, tip, force, ab, anc) ==
    IF most_recent_patch_commit_id(chain) = tip
    THEN Outcome("UpToDate", 0, "proposal already up-to-date with local branch")
    ELSE IF force
    THEN Outcome("Force", 0, "")
    ELSE IF ~ab.ok
    THEN (IF ~anc.ok THEN Outcome("Error", 0, anc.error)
          ELSE IF anc.value
          THEN Outcome("AmendmentsRequireForce", 0,
                       "local unpublished proposal ammendments. consider force pushing.")
          ELSE Outcome("RebaseRequiresForce", 0,
                       "local unpublished proposal has been rebased. consider force pushing"))
    ELSE IF ab.behind # <<>>
    THEN Outcome("LocalDiverged", Len(ab.behind),
                 "your local proposal branch is behind patches on nostr. consider rebasing or force pushing")
    ELSE Outcome("Publish", 0, "")

launch_decision_AheadTestLast(chain, tip, force, ab, anc) ==
    IF most_recent_patch_commit_id(chain) = tip
    THEN Outcome("UpToDate", 0, "proposal already up-to-date with local branch")
    ELSE IF force
    THEN Outcome("Force", 0, "")
    ELSE IF ~ab.ok
    THEN (IF ~anc.ok THEN Outcome("Error", 0, anc.error)
          ELSE IF anc.value
          THEN Outcome("AmendmentsRequireForce", 0,
                       "local unpublished proposal ammendments. consider force pushing.")
          ELSE Outcome("RebaseRequiresForce", 0,
                       "local unpublished proposal has been rebased. consider force pushing"))
    ELSE IF ab.behind # <<>>
    THEN Outcome("LocalDiverged", Len(ab.behind),
                 "your local proposal branch is behind patches on nostr. consider rebasing or force pushing")
    ELSE IF \E i \in 1..Len(chain) : chain[i].parent_commit = tip
    THEN Outcome("LocalBehindProposal", 0, "proposal is ahead of local branch")
    ELSE Outcome("Publish", 0, "")

launch_decision_ForceAfterAheadTest(chain, tip, force, ab, anc) ==
    IF most_recent_patch_commit_id(chain) = tip
    THEN Outcome("UpToDate", 0, "proposal already up-to-date with local branch")
    ELSE IF \E i \in 1..Len(chain) : chain[i].parent_commit = tip
    THEN Outcome("LocalBehindProposal", 0, "proposal is ahead of local branch")
    ELSE IF force
    THEN Outcome("Force", 0, "")
    ELSE IF ~ab.ok
    THEN (IF ~anc.ok THEN Outcome("Error", 0, anc.error)
          ELSE IF anc.value
          THEN Outcome("AmendmentsRequireForce", 0,
                       "local unpublished proposal ammendments. consider force pushing.")
          ELSE Outcome("RebaseRequiresForce", 0,
                       "local unpublished proposal has been rebased. consider force pushing"))
    ELSE IF ab.behind # <<>>
    THEN Outcome("LocalDiverged", Len(ab.behind),
                 "your local proposal branch is behind patches on nostr. consider rebasing or force pushing")
    ELSE Outcome("Publish", 0, "")

launch_decision_ForceFirst(chain, tip, force, ab, anc) ==
    IF force
    THEN Outcome("Force", 0, "")
    ELSE IF most_recent_patch_commit_id(chain) = tip
    THEN Outcome("UpToDate", 0, "proposal already up-to-date with local branch")
    ELSE IF \E i \in 1..Len(chain) : chain[i].parent_commit = tip
    THEN Outcome("LocalBehindProposal", 0, "proposal is ahead of local branch")
    ELSE IF ~ab.ok
    THEN (IF ~anc.ok THEN Outcome("Error", 0, anc.error)
          ELSE IF anc.value
          THEN Outcome("AmendmentsRequireForce", 0,
                       "local unpublished proposal ammendments. consider force pushing.")
          ELSE Outcome("RebaseRequiresForce", 0,
                       "local unpublished proposal has been rebased. consider force pushing"))
    ELSE IF ab.behind # <<>>
    THEN Outcome("LocalDiverged", Len(ab.behind),
                 "your local proposal branch is behind patches on nostr. consider rebasing or force pushing")
    ELSE Outcome("Publish", 0, "")

launch_decision_AncestorInverted(chain, tip, force, ab, anc) ==
    IF most_recent_patch_commit_id(chain) = tip
    THEN Outcome("UpToDate", 0, "proposal already up-to-date with local branch")
    ELSE IF force
    THEN Outcome("Force", 0, "")
    ELSE IF \E i \in 1..Len(chain) : chain[i].parent_commit = tip
    THEN Outcome("LocalBehindProposal", 0, "proposal is ahead of local branch")
    ELSE IF ~ab.ok
    THEN (IF ~anc.ok THEN Outcome("Error", 0, anc.error)
          ELSE IF ~anc.value
          THEN Outcome("AmendmentsRequireForce", 0,
                       "local unpublished proposal ammendments. consider force pushing.")
          ELSE Outcome("RebaseRequiresForce", 0,
                       "local unpublished proposal has been rebased. consider force pushing"))
    ELSE IF ab.behind # <<>>
    THEN Outcome("LocalDiverged", Len(ab.behind),
                 "your local proposal branch is behind patches on nostr. consider rebasing or force pushing")
    ELSE Outcome("Publish", 0, "")

\* push.rs 106-150: what launch decides for the chain, the branch tip, --force
\* and the answers of the repository
launch_decision(chain, tip, force, ab, anc) ==
    IF most_recent_patch_commit_id(chain) = tip
    THEN Outcome("UpToDate", 0, "proposal already up-to-date with local branch")
    ELSE IF force
    THEN Outcome("Force", 0, "")
    ELSE IF \E i \in 1..Len(chain) : chain[i].parent_commit = tip
    THEN Outcome("LocalBehindProposal", 0, "proposal is ahead of local branch")
    ELSE IF ~ab.ok
    THEN (IF ~anc.ok THEN Outcome("Error", 0, anc.error)
          ELSE IF anc.value
          THEN Outcome("AmendmentsRequireForce", 0,
                       "local unpublished proposal ammendments. consider force pushing.")
          ELSE Outcome("RebaseRequiresForce", 0,
                       "local unpublished proposal has been rebased. consider force pushing"))
    ELSE IF ab.behind # <<>>
    THEN Outcome("LocalDiverged", Len(ab.behind),
                 "your local proposal branch is behind patches on nostr. consider rebasing or force pushing")
    ELSE Outcome("Publish", 0, "")

\* sub_commands::send::generate_patch_event: the patch event of `commit`; it
\* references the thread root and, when given, the parent patch
generate_patch_event(commit, thread_event_id, parent_patch_event_id) ==
    [id |-> "patch-" \o commit, commit |-> commit,
     e_tags |-> {thread_event_id} \cup
                (IF parent_patch_event_id = NoEvent THEN {} ELSE {parent_patch_event_id})]

\* patch_events.last().map(nostr::Event::id)
last_id(events) == IF events = <<>> THEN NoEvent ELSE events[Len(events)].id

\* sub_commands::send::launch with in_reply_to = [root id] (push.rs 112-123):
\* the commits are published as a revision, a patch set whose root references
\* the root it replaces and whose other patches follow it
RECURSIVE revision_patches(_, _, _)
revision_patches(commits, thread_event_id, parent_patch_event_id) ==
    IF commits = <<>> THEN <<>>
    ELSE LET patch == [generate_patch_event(Head(commits), thread_event_id,
                                            parent_patch_event_id)
                         EXCEPT !.id = "rev-" \o Head(commits)]
         IN  <<patch>> \o revision_patches(Tail(commits), thread_event_id, patch.id)

send_launch(in_reply_to, commits) ==
    LET root == [id |-> "rev-" \o Head(commits), commit |-> Head(commits),
                 e_tags |-> in_reply_to]
    IN  <<root>> \o revision_patches(Tail(commits), root.id, root.id)

\* the commits of the checked out branch a revision is made of
RevisionCommits(tip) == { <<tip>>, <<BetweenCommits[1], tip>> }

proceeds_to_login_AlsoWhenBehind(decision) ==
    decision.kind \in {"Publish", "LocalDiverged"}

\* push.rs 145-157: login::launch is reached when no test has bailed and
\* --force was not given
proceeds_to_login(decision) == decision.kind = "Publish"

\* push.rs 36-58: launch is called; nothing has been read yet
PushStart ==
    /\ most_recent_proposal_patch_chain = <<>>
    /\ proposal_root_event = "none"
    /\ branch_tip = "none"
    /\ args_force \in BOOLEAN
    /\ ahead_behind = NoAnswer
    /\ ancestor = NoAnswer
    /\ ahead = <<>>
    /\ patch_events = <<>>
    /\ sent = <<>>
    /\ ppc = "start"
    /\ outcome = NoOutcome

\* the tests of push.rs 51-53, 64-70 and 79-80 that end launch
Refusals ==
    { "checkout a branch associated with a proposal first",
      "cannot find proposal that matches the current branch name",
      "cannot get most recent patch for proposal" }

\* push.rs 36-104: launch up to the chain and the branch tip; `refusal` is
\* the test that bails, or "none"
PushPrepare(refusal, sample, tip) ==
    /\ ppc = "start"
    /\ IF refusal \in Refusals
       THEN /\ outcome' = Outcome("Error", 0, refusal)
            /\ ppc' = "done"
            /\ UNCHANGED <<most_recent_proposal_patch_chain, proposal_root_event, branch_tip>>
       ELSE /\ most_recent_proposal_patch_chain' = sample.chain
            /\ proposal_root_event' = sample.root
            /\ branch_tip' = tip
            /\ ppc' = "idle"
            /\ UNCHANGED outcome
    /\ UNCHANGED <<args_force, ahead_behind, ancestor, ahead, patch_events, sent>>
    /\ UNCHANGED <<tvars, cachevars, rrvars, fvars, lvars, xvars>>

SomePushPrepare ==
    \E refusal \in Refusals \cup {"none"}, sample \in ChainSamples, tip \in Commits :
        PushPrepare(refusal, sample, tip)

PushInit ==
    /\ \E sample \in ChainSamples :
          /\ most_recent_proposal_patch_chain = sample.chain
          /\ proposal_root_event = sample.root
    /\ branch_tip \in Commits
    /\ args_force \in BOOLEAN
    /\ ahead_behind = NoAnswer
    /\ ancestor = NoAnswer
    /\ ahead = <<>>
    /\ patch_events = <<>>
    /\ sent = <<>>
    /\ ppc = "idle"
    /\ outcome = NoOutcome

\* push.rs 106-155: launch up to its decision; ab and anc are what the
\* repository answers if it is asked, force_ok whether send::launch succeeds
\* and commits what it publishes
PushLaunch(ab, anc, force_ok, commits) ==
    /\ ppc = "idle"
    /\ LET chain == most_recent_proposal_patch_chain
           decision == launch_decision(chain, branch_tip, args_force, ab, anc)
           asked_ab == /\ most_recent_patch_commit_id(chain) # branch_tip
                       /\ ~args_force
                       /\ ~\E i \in 1..Len(chain) : chain[i].parent_commit = branch_tip
           asked_anc == asked_ab /\ ~ab.ok
       IN  /\ ahead_behind' = IF asked_ab THEN ab ELSE NoAnswer
           /\ ancestor' = IF asked_anc THEN anc ELSE NoAnswer
           /\ IF proceeds_to_login(decision)
              THEN /\ ahead' = ab.ahead
                   /\ ppc' = "login"
                   /\ outcome' = decision
                   /\ UNCHANGED sent
              ELSE IF decision.kind = "Force"
              THEN /\ outcome' = IF force_ok THEN decision
                                 ELSE Outcome("Force", 0, "send failed")
                   /\ sent' = IF force_ok THEN send_launch({proposal_root_event}, commits)
                              ELSE <<>>
                   /\ ppc' = "done"
                   /\ UNCHANGED ahead
              ELSE /\ outcome' = decision
                   /\ ppc' = "done"
                   /\ UNCHANGED <<ahead, sent>>
    /\ UNCHANGED <<most_recent_proposal_patch_chain, proposal_root_event, branch_tip,
                   args_force, patch_events>>
    /\ UNCHANGED <<tvars, cachevars, rrvars, fvars, lvars, xvars>>

SomePushLaunch ==
    \E ab \in AheadBehindAnswers(most_recent_proposal_patch_chain, branch_tip),
       anc \in AncestorAnswers, force_ok \in BOOLEAN, commits \in RevisionCommits(branch_tip) :
        PushLaunch(ab, anc, force_ok, commits)

\* push.rs 157-166: login::launch
PushLogin(ok) ==
    /\ ppc = "login"
    /\ IF ok
       THEN ppc' = "generate" /\ UNCHANGED outcome
       ELSE ppc' = "done" /\ outcome' = [outcome EXCEPT !.error = "login failed"]
    /\ UNCHANGED <<most_recent_proposal_patch_chain, proposal_root_event, branch_tip,
                   args_force, ahead_behind, ancestor, ahead, patch_events, sent>>
    /\ UNCHANGED <<tvars, cachevars, rrvars, fvars, lvars, xvars>>

SomePushLogin == \E ok \in BOOLEAN : PushLogin(ok)

\* push.rs 169-187: one turn of the loop over the ahead commits
PushGenerate(ok) ==
    /\ ppc = "generate"
    /\ Len(patch_events) < Len(ahead)
    /\ IF ok
       THEN /\ patch_events' = Append(patch_events,
                 generate_patch_event(ahead[Len(patch_events) + 1], proposal_root_event,
                                      last_id(patch_events)))
            /\ UNCHANGED <<ppc, outcome>>
       ELSE /\ ppc' = "done"
            /\ outcome' = [outcome EXCEPT !.error = "cannot make patch event from commit"]
            /\ UNCHANGED patch_events
    /\ UNCHANGED <<most_recent_proposal_patch_chain, proposal_root_event, branch_tip,
                   args_force, ahead_behind, ancestor, ahead, sent>>
    /\ UNCHANGED <<tvars, cachevars, rrvars, fvars, lvars, xvars>>

SomePushGenerate == \E ok \in BOOLEAN : PushGenerate(ok)

\* push.rs 188-203: send_events; when it fails, `delivered` of the events had gone out
PushSend(ok, delivered) ==
    /\ ppc = "generate"
    /\ Len(patch_events) = Len(ahead)
    /\ IF ok
       THEN sent' = patch_events /\ UNCHANGED outcome
       ELSE /\ sent' = SubSeq(patch_events, 1, delivered)
            /\ outcome' = [outcome EXCEPT !.error = "send failed"]
    /\ ppc' = "done"
    /\ UNCHANGED <<most_recent_proposal_patch_chain, proposal_root_event, branch_tip,
                   args_force, ahead_behind, ancestor, ahead, patch_events>>
    /\ UNCHANGED <<tvars, cachevars, rrvars, fvars, lvars, xvars>>

SomePushSend ==
    \E ok \in BOOLEAN, delivered \in 0..MaxAhead :
        delivered <= Len(patch_events) /\ PushSend(ok, delivered)

PushNext ==
    \/ SomePushLaunch
    \/ SomePushLogin
    \/ SomePushGenerate
    \/ SomePushSend

\* launch from its first line
PushAllNext ==
    \/ SomePushPrepare
    \/ SomePushLaunch
    \/ SomePushLogin
    \/ SomePushGenerate
    \/ SomePushSend

(***************************************************************************)
(* PROPOSAL LIST: get_open_proposals  (utils.rs 95-155)                    *)
(***************************************************************************)

\* a signed event with the commit and parent-commit tags of a patch
PEv(id, kind, created_at, a_tags, e_tags, root, commit, parent_commit) ==
    [id |-> id, kind |-> kind, pubkey |-> "Z", created_at |-> created_at,
     identifier |-> "", maintainers |-> {}, relays |-> {},
     a_tags |-> a_tags, e_tags |-> e_tags, root |-> root,
     commit |-> commit, parent_commit |-> parent_commit]

\* The events the repository's cache may hold when proposals are listed: a
\* cover-letter root P with the patches p1 (base -> c1), p2 (c1 -> c2) and
\* p2b (c1 -> c2b, a second patch on c1), a root Q that is itself a patch, a
\* revision root of P with its patch rp, and statuses of P (closed,
\* re-opened, closed again) and of Q (applied, draft).
ProposalSamples ==
    { PEv("P", PATCH_KIND, 1, {CX}, {}, TRUE, "", ""),
      PEv("p1", PATCH_KIND, 2, {CX}, {"P"}, FALSE, "c1", "base"),
      PEv("p2", PATCH_KIND, 3, {CX}, {"P", "p1"}, FALSE, "c2", "c1"),
      PEv("p2b", PATCH_KIND, 4, {CX}, {"P", "p1"}, FALSE, "c2b", "c1"),
      PEv("Q", PATCH_KIND, 5, {CX}, {}, TRUE, "d1", "base"),
      PEv("rv", PATCH_KIND, 6, {CX}, {"P"}, TRUE, "", ""),
      PEv("rp", PATCH_KIND, 7, {CX}, {"rv"}, FALSE, "e1", "base"),
      PEv("sC", "GitStatusClosed", 10, {}, {"P"}, FALSE, "", ""),
      PEv("sO", "GitStatusOpen", 11, {}, {"P"}, FALSE, "", ""),
      PEv("sC2", "GitStatusClosed", 12, {}, {"P"}, FALSE, "", ""),
      PEv("sQ", "GitStatusApplied", 13, {}, {"Q"}, FALSE, "", ""),
      PEv("sD", "GitStatusDraft", 14, {}, {"Q"}, FALSE, "", "") }

\* repo_ref.coordinates() of the listed repository
ListCoordinates == {CX}

\* git_events::event_is_revision_root: a patch-set root that points at an
\* earlier root
event_is_revision_root(event) == event_is_patch_set_root(event) /\ event.e_tags # {}

\* client::get_proposals_and_revisions_from_cache: the patch-set roots tagged
\* with one of the coordinates
get_proposals_and_revisions_from_cache(cache, repo_coordinates) ==
    SelectSeq(query(cache, <<Filter({PATCH_KIND}, Unset, Unset, Only(repo_coordinates), Unset)>>),
              event_is_patch_set_root)

\* client::get_events_from_cache: query of the repository's cache
get_events_from_cache(cache, filters) == query(cache, filters)

\* client::get_all_proposal_patch_events_from_cache: the patches of the
\* proposal, i.e. the events with a commit that are the root or reference it
get_all_proposal_patch_events_from_cache(cache, proposal_id) ==
    LET is_patch_of(e) == /\ e.kind = PATCH_KIND
                          /\ e.commit # ""
                          /\ (e.id = proposal_id \/ proposal_id \in e.e_tags)
    IN  SelectSeq(Ascending(cache), is_patch_of)

\* the walk from patch p along the parent-commit links; <<>> when a link is
\* ambiguous or the walk does not end
RECURSIVE patch_with_ancestors(_, _, _)
patch_with_ancestors(p, patches, fuel) ==
    LET parents == { q \in patches : q.commit = p.parent_commit }
    IN  IF parents = {} THEN <<p>>
        ELSE IF Cardinality(parents) > 1 \/ fuel = 0 THEN <<>>
        ELSE LET rest == patch_with_ancestors(CHOOSE q \in parents : TRUE, patches, fuel - 1)
             IN  IF rest = <<>> THEN <<>> ELSE <<p>> \o rest

\* git_events::get_most_recent_patch_with_ancestors: the chain from the tip
\* (the patch no other patch builds on) back along the parent-commit links,
\* tip first; an error when the patches do not form one chain
get_most_recent_patch_with_ancestors(commits_events) ==
    LET patches == SeqToSet(commits_events)
        tips == { p \in patches : ~\E q \in patches : q.parent_commit = p.commit }
        chain == IF Cardinality(tips) = 1
                 THEN patch_with_ancestors(CHOOSE p \in tips : TRUE, patches,
                                           Cardinality(patches))
                 ELSE <<>>
    IN  [ok |-> chain # <<>>, chain |-> chain]

sorted_statuses_OldestFirst(cache, proposals) ==
    sort_by_created_at(get_events_from_cache(cache,
        <<Filter(status_kinds, Unset, Unset, Unset, Only(Ids(SeqToSet(proposals))))>>))

\* utils.rs 108-121: the status events that reference a proposal, newest first
sorted_statuses(cache, proposals) ==
    Reverse(sort_by_created_at(get_events_from_cache(cache,
        <<Filter(status_kinds, Unset, Unset, Unset, Only(Ids(SeqToSet(proposals))))>>)))

proposal_status_NoTerminal(proposal, statuses) ==
    LET tags_proposal(e) == e.kind \in status_kinds /\ proposal.id \in e.e_tags
        tagged == SelectSeq(statuses, tags_proposal)
        terminal(e) == e.kind \in {"GitStatusClosed", "GitStatusApplied"}
    IN  IF SelectSeq(tagged, terminal) # <<>> THEN "GitStatusClosed" ELSE "GitStatusOpen"

\* utils.rs 125-139: the kind of the first status event in `statuses` that
\* is tagged with the proposal, Open when there is none
proposal_status(proposal, statuses) ==
    LET tags_proposal(e) == e.kind \in status_kinds /\ proposal.id \in e.e_tags
        tagged == SelectSeq(statuses, tags_proposal)
    IN  IF tagged # <<>> THEN tagged[1].kind ELSE "GitStatusOpen"

listed_proposals_WithRevisionRoots(cache, repo_coordinates) ==
    get_proposals_and_revisions_from_cache(cache, repo_coordinates)

\* utils.rs 100-106: the proposal roots that are not revision roots
listed_proposals(cache, repo_coordinates) ==
    LET not_revision_root(e) == ~event_is_revision_root(e)
    IN  SelectSeq(get_proposals_and_revisions_from_cache(cache, repo_coordinates),
                  not_revision_root)

\* utils.rs 141-147, 172-178: the chain of the proposal; an error when its
\* patch events cannot be loaded or do not form one chain
proposal_chain(cache, proposal, failing) ==
    IF proposal.id \in failing THEN [ok |-> FALSE, chain |-> <<>>]
    ELSE get_most_recent_patch_with_ancestors(
             get_all_proposal_patch_events_from_cache(cache, proposal.id))

get_open_proposals_AllPatches(cache, repo_coordinates, failing) ==
    LET proposals == listed_proposals(cache, repo_coordinates)
        statuses == sorted_statuses(cache, proposals)
        commits_events(proposal) == get_all_proposal_patch_events_from_cache(cache, proposal.id)
    IN  { [id |-> proposal.id, root |-> proposal, chain |-> commits_events(proposal)] :
            proposal \in { x \in SeqToSet(proposals) :
                             /\ proposal_status(x, statuses) = "GitStatusOpen"
                             /\ proposal_chain(cache, x, failing).ok } }

\* utils.rs 95-155: the map from the id of every open proposal whose chain
\* can be built to (root event, chain)
get_open_proposals(cache, repo_coordinates, failing) ==
    LET proposals == listed_proposals(cache, repo_coordinates)
        statuses == sorted_statuses(cache, proposals)
    IN  { [id |-> proposal.id, root |-> proposal,
           chain |-> proposal_chain(cache, proposal, failing).chain] :
            proposal \in { x \in SeqToSet(proposals) :
                             /\ proposal_status(x, statuses) = "GitStatusOpen"
                             /\ proposal_chain(cache, x, failing).ok } }

get_all_proposals_FailFast(cache, repo_coordinates, failing) ==
    LET proposals == SeqToSet(listed_proposals(cache, repo_coordinates))
    IN  IF \E x \in proposals : ~proposal_chain(cache, x, failing).ok THEN {}
        ELSE { [id |-> proposal.id, root |-> proposal,
                chain |-> proposal_chain(cache, proposal, failing).chain] :
                 proposal \in proposals }

\* utils.rs 157-184: the map from the id of every proposal whose chain can be
\* built to (root event, chain)
get_all_proposals(cache, repo_coordinates, failing) ==
    LET proposals == listed_proposals(cache, repo_coordinates)
    IN  { [id |-> proposal.id, root |-> proposal,
           chain |-> proposal_chain(cache, proposal, failing).chain] :
            proposal \in { x \in SeqToSet(proposals) :
                             proposal_chain(cache, x, failing).ok } }

\* the sets of proposals whose patch events cannot be loaded
UnloadableChoices == { {}, {"P"}, {"Q"} }

\* the cache of the repository holds any of the sample events
ListInit ==
    /\ local_cache \in SUBSET ProposalSamples
    /\ global_cache = {}
    /\ unloadable \in UnloadableChoices
    /\ lpc = "idle"
    /\ open_proposals = {}
    /\ apc = "idle"
    /\ all_proposals = {}

\* get_open_proposals is called and returns
GetOpenProposals ==
    /\ lpc = "idle"
    /\ open_proposals' = get_open_proposals(local_cache, ListCoordinates, unloadable)
    /\ lpc' = "done"
    /\ UNCHANGED <<apc, all_proposals, unloadable>>
    /\ UNCHANGED <<tvars, cachevars, rrvars, fvars, pvars, xvars>>

\* get_all_proposals is called and returns
GetAllProposals ==
    /\ apc = "idle"
    /\ all_proposals' = get_all_proposals(local_cache, ListCoordinates, unloadable)
    /\ apc' = "done"
    /\ UNCHANGED <<lpc, open_proposals, unloadable>>
    /\ UNCHANGED <<tvars, cachevars, rrvars, fvars, pvars, xvars>>

ListNext ==
    \/ GetOpenProposals
    \/ GetAllProposals

(***************************************************************************)
(* BOUNDED FAN-OUT: buffer_unordered(15) in fetch_all and                  *)
(* get_events_per_relay  (client.rs 281-282, 392-396)                      *)
(***************************************************************************)

\* client.rs 282, 394: the argument of buffer_unordered
BufferLimit == 15

\* the most relays a fetch addresses
MaxRelays == 17

\* n tasks of which the first k never leave the loop of fetch_all_from_relay
\* (a relay that answers every round with an announcement that names a
\* maintainer whose coordinate is not in the request)
Tasks(n, k) == [i \in 1..n |-> IF i <= k THEN "endless" ELSE "ends"]

\* the tasks handed to the stream: all ending, one endless, and as many
\* endless ones as the buffer holds
FutureSamples ==
    { Tasks(n, 0) : n \in 0..MaxRelays }
      \cup { Tasks(n, 1) : n \in 1..MaxRelays }
      \cup { Tasks(n, BufferLimit) : n \in BufferLimit..MaxRelays }

InFlight == in_flight.ends + in_flight.endless

\* client.rs 281-282, 392-394: the stream is built over the futures
BufferInit ==
    /\ futures \in FutureSamples
    /\ started = 0
    /\ in_flight = [ends |-> 0, endless |-> 0]
    /\ endless_rounds = 0
    /\ relay_reports = 0
    /\ qpc = "streaming"

\* buffer_unordered(15): a further future is taken from the iterator only
\* while fewer than 15 are being polled
buffer_has_room(count) == count < BufferLimit

\* the next future of the iterator is taken and polled
BufferStart ==
    /\ qpc = "streaming"
    /\ started < Len(futures)
    /\ buffer_has_room(InFlight)
    /\ started' = started + 1
    /\ in_flight' = [in_flight EXCEPT ![futures[started + 1]] = @ + 1]
    /\ UNCHANGED <<futures, endless_rounds, relay_reports, qpc>>
    /\ UNCHANGED <<tvars, cachevars, rrvars, fvars, pvars, lvars, mvars, bvars, jvars, gvars>>

\* a task returns Ok or Err and its result is added to the collection
TaskEnds ==
    /\ qpc = "streaming"
    /\ in_flight.ends > 0
    /\ in_flight' = [in_flight EXCEPT !.ends = @ - 1]
    /\ relay_reports' = relay_reports + 1
    /\ UNCHANGED <<futures, started, endless_rounds, qpc>>
    /\ UNCHANGED <<tvars, cachevars, rrvars, fvars, pvars, lvars, mvars, bvars, jvars, gvars>>

\* client.rs 425-507: a task whose every round finds a fresh coordinate
\* makes another round
TaskRound ==
    /\ qpc = "streaming"
    /\ in_flight.endless > 0
    /\ endless_rounds < MaxRounds
    /\ endless_rounds' = endless_rounds + 1
    /\ UNCHANGED <<futures, started, in_flight, relay_reports, qpc>>
    /\ UNCHANGED <<tvars, cachevars, rrvars, fvars, pvars, lvars, mvars, bvars, jvars, gvars>>

\* client.rs 392-402, 281-285: collect() returns when the iterator is
\* exhausted and no future is being polled; the reports are consolidated
Collect ==
    /\ qpc = "streaming"
    /\ started = Len(futures)
    /\ InFlight = 0
    /\ qpc' = "done"
    /\ UNCHANGED <<futures, started, in_flight, endless_rounds, relay_reports>>
    /\ UNCHANGED <<tvars, cachevars, rrvars, fvars, pvars, lvars, mvars, bvars, jvars, gvars>>

BufferNext ==
    \/ BufferStart
    \/ TaskEnds
    \/ TaskRound
    \/ Collect

(***************************************************************************)
(* BRANCH LOOKUP: find_proposal_and_patches_by_branch_name                 *)
(* (utils.rs 186-211)                                                      *)
(***************************************************************************)

\* a proposal root as the lookup reads it: its author, the branch name the
\* author chose, and whether a cover letter and a branch name can be read
MEv(id, pubkey, branch_name, cover_letter, named) ==
    [id |-> id, pubkey |-> pubkey, branch_name |-> branch_name,
     cover_letter |-> cover_letter, named |-> named]

\* the entries of the map of open proposals: two proposals of A with one
\* chosen name, one of B with the same chosen name, one of B whose chosen
\* name is the public name of A's first, two that cannot be named, and one
\* of C with a name of two path segments
MatchSamples ==
    { [id |-> root.id, root |-> root, chain |-> <<>>] :
        root \in { MEv("P1", "A", "fix", TRUE, TRUE),
                   MEv("P2", "A", "fix", TRUE, TRUE),
                   MEv("P3", "B", "fix", TRUE, TRUE),
                   MEv("P4", "B", "pr/fix(P1)", TRUE, TRUE),
                   MEv("P5", "A", "fix", FALSE, FALSE),
                   MEv("P6", "A", "fix", TRUE, FALSE),
                   MEv("P7", "C", "a/b", TRUE, TRUE) } }

\* the reference strings looked up
RefstrSamples ==
    { "refs/heads/fix", "fix", "refs/heads/refs/heads/fix",
      "refs/heads/pr/fix(P1)", "refs/heads/pr/fix(P3)", "refs/heads/main",
      "refs/heads/a/refs/heads/b" }

\* the users: A, B, a third one, nobody
UserSamples == {"A", "B", "C", NoUser}

\* str::replace(from, ""): every occurrence of `from` removed, left to right
RECURSIVE remove_all(_, _)
remove_all(s, from) ==
    IF Len(s) < Len(from) THEN s
    ELSE IF SubSeq(s, 1, Len(from)) = from
         THEN remove_all(SubSeq(s, Len(from) + 1, Len(s)), from)
         ELSE SubSeq(s, 1, 1) \o remove_all(SubSeq(s, 2, Len(s)), from)

\* git_events::event_to_cover_letter
event_to_cover_letter(proposal) ==
    [ok |-> proposal.cover_letter, branch_name |-> proposal.branch_name,
     id |-> proposal.id, named |-> proposal.named]

\* CoverLetter::get_branch_name: the public name, derived from the chosen
\* name and the root event
get_branch_name(cl) ==
    [ok |-> cl.named, name |-> "pr/" \o cl.branch_name \o "(" \o cl.id \o ")"]

proposal_matches_ChosenForAll(proposal, ref, user) ==
    LET cl == event_to_cover_letter(proposal)
    IN  /\ cl.ok
        /\ get_branch_name(cl).ok
        /\ cl.branch_name = remove_all(ref, "refs/heads/")

\* utils.rs 191-209: the predicate of find
proposal_matches(proposal, ref, user) ==
    LET cl == event_to_cover_letter(proposal)
    IN  /\ cl.ok
        /\ get_branch_name(cl).ok
        /\ LET branch_name ==
                   IF user # NoUser /\ proposal.pubkey = user
                   THEN cl.branch_name
                   ELSE get_branch_name(cl).name
           IN  branch_name = remove_all(ref, "refs/heads/")

\* utils.rs 186-211: what find may return: the first entry, in the map's
\* iteration order, that matches; the order of a HashMap is arbitrary
find_proposal_and_patches_by_branch_name(ref, proposals, user) ==
    LET matching == { entry \in proposals : proposal_matches(entry.root, ref, user) }
    IN  IF matching = {} THEN {NotFound} ELSE matching

MatchInit ==
    /\ open_proposals \in SUBSET MatchSamples
    /\ lpc = "done" /\ apc = "off" /\ all_proposals = {} /\ unloadable = {}
    /\ refstr \in RefstrSamples
    /\ current_user \in UserSamples
    /\ matched = NotFound
    /\ mpc = "idle"

FindProposal ==
    /\ mpc = "idle"
    /\ matched' \in find_proposal_and_patches_by_branch_name(refstr, open_proposals,
                                                             current_user)
    /\ mpc' = "done"
    /\ UNCHANGED <<refstr, current_user>>
    /\ UNCHANGED <<tvars, cachevars, rrvars, fvars, pvars, lvars, bvars, jvars, qvars, gvars>>

MatchNext == FindProposal

(***************************************************************************)
(* FETCH BATCH: get_oids_from_fetch_batch, read_line  (utils.rs 58-93)     *)
(***************************************************************************)

\* the most lines standard input holds
MaxLines == 3

\* lines git may write after a fetch command
LineSamples ==
    { "fetch o2 refs/heads/b",
      " fetch  o3   refs/heads/a  ",
      "",
      "   ",
      "list",
      "fetch o4",
      "fetch o5 refs/heads/c extra",
      "push refs/heads/a:refs/heads/a" }

\* str::trim, for the white space of the samples
RECURSIVE trim(_)
trim(s) ==
    IF Len(s) > 0 /\ SubSeq(s, 1, 1) = " " THEN trim(SubSeq(s, 2, Len(s)))
    ELSE IF Len(s) > 0 /\ SubSeq(s, Len(s), Len(s)) = " " THEN trim(SubSeq(s, 1, Len(s) - 1))
    ELSE s

\* utils.rs 91-92: split(' ') and the filter that drops the empty pieces;
\* `piece` is the piece being read
RECURSIVE split_non_empty(_, _)
split_non_empty(s, piece) ==
    LET ended == IF piece = "" THEN <<>> ELSE <<piece>>
    IN  IF Len(s) = 0 THEN ended
        ELSE IF SubSeq(s, 1, 1) = " "
             THEN ended \o split_non_empty(SubSeq(s, 2, Len(s)), "")
             ELSE split_non_empty(SubSeq(s, 2, Len(s)), piece \o SubSeq(s, 1, 1))

\* utils.rs 82-93: the tokens of the next line of `input`; no token at the
\* end of the input
read_line(input) ==
    IF input = <<>> THEN <<>>
    ELSE split_non_empty(trim(input[1]), "")

\* HashMap::insert
insert(map, key, value) ==
    { entry \in map : entry.refstr # key } \cup { [refstr |-> key, oid |-> value] }

fetch_batch_step_SkipOther(map, tokens) ==
    IF Len(tokens) = 3 /\ tokens[1] = "fetch"
    THEN [pc |-> "reading", batch |-> insert(map, tokens[3], tokens[2])]
    ELSE IF Len(tokens) = 0 THEN [pc |-> "returned", batch |-> map]
    ELSE [pc |-> "reading", batch |-> map]

\* utils.rs 66-77: one turn of the loop on the tokens read
fetch_batch_step(map, tokens) ==
    IF Len(tokens) = 3 /\ tokens[1] = "fetch"
    THEN [pc |-> "reading", batch |-> insert(map, tokens[3], tokens[2])]
    ELSE IF Len(tokens) = 0 THEN [pc |-> "returned", batch |-> map]
    ELSE [pc |-> "error", batch |-> {}]

\* utils.rs 58-65: the batch holds the fetch command already read
BatchInit ==
    /\ initial_oid = "o1"
    /\ initial_refstr \in {"refs/heads/a", "refs/heads/z"}
    /\ stdin \in UNION { [1..n -> LineSamples] : n \in 0..MaxLines }
    /\ consumed = <<>>
    /\ batch = insert({}, initial_refstr, initial_oid)
    /\ bpc = "reading"

\* utils.rs 66-77: one turn of the loop
ReadLine ==
    /\ bpc = "reading"
    /\ LET after == fetch_batch_step(batch, read_line(stdin))
       IN  /\ batch' = after.batch
           /\ bpc' = after.pc
    /\ IF stdin = <<>> THEN UNCHANGED <<stdin, consumed>>
       ELSE /\ stdin' = Tail(stdin)
            /\ consumed' = Append(consumed, Head(stdin))
    /\ UNCHANGED <<initial_oid, initial_refstr>>
    /\ UNCHANGED <<tvars, cachevars, rrvars, fvars, pvars, lvars, mvars, jvars, qvars, gvars>>

BatchNext == ReadLine

(***************************************************************************)
(* join_with_and  (utils.rs 213-230)                                       *)
(***************************************************************************)

\* the longest slice passed in
MaxItems == 4

\* the items: the ones of the tests (utils.rs 396-433), one that holds a
\* separator and the empty string
ItemSamples == {"apple", "banana", "cherry", "date", "salt and pepper", ""}

\* [T]::join
RECURSIVE join(_, _)
join(strs, sep) ==
    IF strs = <<>> THEN ""
    ELSE IF Len(strs) = 1 THEN strs[1]
    ELSE strs[1] \o sep \o join(Tail(strs), sep)

join_with_and_CommaBeforeLast(items) ==
    IF Len(items) = 0 THEN ""
    ELSE IF Len(items) = 1 THEN items[1]
    ELSE join(SubSeq(items, 1, Len(items) - 1), ", ") \o ", and " \o items[Len(items)]

\* utils.rs 213-230
join_with_and(items) ==
    IF Len(items) = 0 THEN ""
    ELSE IF Len(items) = 1 THEN items[1]
    ELSE LET last_item == items[Len(items)]
             rest == SubSeq(items, 1, Len(items) - 1)
         IN  join(rest, ", ") \o " and " \o last_item

JoinInit ==
    /\ join_items \in UNION { [1..n -> ItemSamples] : n \in 0..MaxItems }
    /\ joined = ""
    /\ jpc = "idle"

JoinWithAnd ==
    /\ jpc = "idle"
    /\ joined' = join_with_and(join_items)
    /\ jpc' = "done"
    /\ UNCHANGED join_items
    /\ UNCHANGED <<tvars, cachevars, rrvars, fvars, pvars, lvars, mvars, bvars, qvars, gvars>>

JoinNext == JoinWithAnd

FetchIdle ==
    /\ relay_store = [r \in RelayUrls |-> {}]
    /\ fallback_relays = {}
    /\ fpc = "off"
    /\ fetch_no = 0
    /\ request = NoRequest
    /\ task = [r \in RelayUrls |-> NoTask]
    /\ finished = <<>>
    /\ fetch_report = EmptyReport
    /\ history = <<>>

ListIdle ==
    /\ lpc = "off"
    /\ open_proposals = {}
    /\ apc = "off"
    /\ all_proposals = {}
    /\ unloadable = {}

PushIdle ==
    /\ most_recent_proposal_patch_chain = <<>>
    /\ proposal_root_event = "none"
    /\ branch_tip = "none"
    /\ args_force = FALSE
    /\ ahead_behind = NoAnswer
    /\ ancestor = NoAnswer
    /\ ahead = <<>>
    /\ patch_events = <<>>
    /\ sent = <<>>
    /\ ppc = "off"
    /\ outcome = NoOutcome

(***************************************************************************)
(* FETCH FILTERS: get_fetch_filters on its own  (client.rs 963-1009)       *)
(***************************************************************************)

\* the sets the function is called with
FilterArgSamples ==
    [repo_coordinates : {{}, {CX}, {CX, CY}},
     proposal_ids : {{}, {"p0"}},
     required_profiles : {{}, {"X"}}]

FiltersInit == filter_args = NoArgs /\ fetch_filters = <<>> /\ gpc = "idle"

\* client.rs 963-1009: one call of the function
GetFetchFilters(args) ==
    /\ gpc = "idle"
    /\ filter_args' = args
    /\ fetch_filters' = get_fetch_filters(args.repo_coordinates, args.proposal_ids,
                                          args.required_profiles)
    /\ gpc' = "done"
    /\ UNCHANGED <<tvars, cachevars, rrvars, fvars, pvars, lvars, mvars, bvars, jvars, qvars>>

SomeGetFetchFilters == \E args \in FilterArgSamples : GetFetchFilters(args)

\* the function called on its own, and a fetch_all over the one relay that
\* holds events, which calls it round by round
FiltersNext == SomeGetFetchFilters \/ FetchNext

(***************************************************************************)
(* SPECIFICATIONS                                                          *)
(***************************************************************************)

InitTransport ==
    /\ HelpersIdle
    /\ TransportInit /\ RepoRefIdle /\ FetchIdle /\ PushIdle /\ ListIdle
    /\ global_cache = {} /\ local_cache = {}

SpecTransport == InitTransport /\ [][TransportNext]_vars

\* the events a cache may hold when the resolver is called on its own
RepoRefCacheSamples == { e \in EventSamples : e.id \in {"a1", "a2", "a3", "p0"} }

RepoRefInit ==
    /\ global_cache \in SUBSET RepoRefCacheSamples
    /\ local_cache \in SUBSET RepoRefCacheSamples
    /\ seed \in SeedChoices
    /\ maintainers = {}
    /\ new_coordinate = FALSE
    /\ repo_events = <<>>
    /\ rr_pc = "idle"
    /\ rr_passes = 0
    /\ rr_result = NoResult

\* get_repo_ref_from_cache is called with the seed coordinates
RepoRefCall ==
    /\ rr_pc = "idle"
    /\ EnterRepoRef(seed)
    /\ UNCHANGED <<cachevars, tvars, fvars, pvars, lvars, xvars>>

RepoRefNext ==
    \/ RepoRefCall
    \/ RepoRefPass

InitFetch == FetchInit /\ TransportIdle /\ PushIdle /\ ListIdle /\ HelpersIdle

SpecFetch == InitFetch /\ [][FetchNext]_vars

\* fetch_all of a client configured with both relays as fallback relays and
\* asked for X's coordinate
InitFanout == InitFetch /\ fallback_relays = RelayUrls /\ seed = {CX}

SpecFanout == InitFanout /\ [][FetchNext]_vars

InitPush ==
    /\ HelpersIdle
    /\ PushInit /\ TransportIdle /\ RepoRefIdle /\ FetchIdle /\ ListIdle
    /\ global_cache = {} /\ local_cache = {}

SpecPush == InitPush /\ [][PushNext]_vars

InitPushAll ==
    /\ HelpersIdle
    /\ PushStart /\ TransportIdle /\ RepoRefIdle /\ FetchIdle /\ ListIdle
    /\ global_cache = {} /\ local_cache = {}

SpecPushAll == InitPushAll /\ [][PushAllNext]_vars

InitRepoRef == RepoRefInit /\ TransportIdle /\ FetchIdle /\ PushIdle /\ ListIdle /\ HelpersIdle

SpecRepoRef == InitRepoRef /\ [][RepoRefNext]_vars

\* FetchReport (client.rs 1028-1038) with the given fields
Report(repo_coordinates, updates, proposals, commits, statuses, contributor_profiles) ==
    [repo_coordinates |-> repo_coordinates, updated_repo_announcements |-> updates,
     proposals |-> proposals, commits |-> commits, statuses |-> statuses,
     contributor_profiles |-> contributor_profiles]

\* an entry of FetchReport.updated_repo_announcements
Updated(c, t) == [c |-> c, t |-> t]

\* Reports a relay task may return (client.rs 853-927): new coordinates in
\* the order found, with repetitions when a relay holds two announcements of
\* one coordinate; one or several updates of a coordinate; proposal roots,
\* patches and statuses; authors of profiles.
ReportSamples ==
    { EmptyReport,
      Report(<<CY>>, <<>>, {"p0"}, {}, {}, {}),
      Report(<<CZ, CY>>, <<>>, {"pY"}, {"p1"}, {}, {}),
      Report(<<CY, CZ, CY>>, <<Updated(CX, 2)>>, {"p0"}, {}, {"s1"}, {}),
      Report(<<>>, <<Updated(CX, 3)>>, {"p0", "pY"}, {"p1"}, {}, {}),
      Report(<<>>, <<Updated(CX, 2), Updated(CX, 3)>>, {}, {}, {"s1"}, {}),
      Report(<<>>, <<Updated(CX, 3), Updated(CY, 1), Updated(CX, 2)>>, {}, {}, {}, {}),
      Report(<<CZ>>, <<Updated(CY, 4), Updated(CX, 1)>>, {"rv"}, {}, {}, {}),
      Report(<<>>, <<>>, {"p0"}, {}, {}, {"Z"}),
      Report(<<CY>>, <<Updated(CX, 2)>>, {}, {"p1"}, {}, {"Y", "Z"}) }

\* client.rs 392-394: every relay task has ended, with Ok(report) or Err,
\* in either order; the reports are about to be consolidated
ConsolidateInit ==
    /\ relay_store = [r \in RelayUrls |-> {}]
    /\ fallback_relays = {}
    /\ fpc = "fanout"
    /\ fetch_no = 1
    /\ request = NoRequest
    /\ task \in [RelayUrls -> { [NoTask EXCEPT !.pc = pc, !.report = report, !.round = 1] :
                                  pc \in {"ok", "err"}, report \in ReportSamples }]
    /\ finished \in { <<"r1", "r2">>, <<"r2", "r1">> }
    /\ fetch_report = EmptyReport
    /\ history = <<>>

ConsolidateNext ==
    \/ FetchAllReturn

InitConsolidate ==
    /\ HelpersIdle
    /\ ConsolidateInit /\ TransportIdle /\ RepoRefIdle /\ PushIdle /\ ListIdle
    /\ global_cache = {} /\ local_cache = {}

SpecConsolidate == InitConsolidate /\ [][ConsolidateNext]_vars

\* events a relay task is handed while it processes responses
MaxKept == 3

\* the events a relay may send: the samples and a profile event that tags
\* the proposal root p0
ProcessSamples ==
    EventSamples \cup { Ev("m2", "Metadata", "Y", 11, "", {}, {}, {}, {"p0"}, FALSE) }

\* what the local cache may hold when the request is built
ProcessCacheSamples ==
    { {}, { e \in EventSamples : e.id = "a1" }, { e \in EventSamples : e.id \in {"a1", "p0"} } }

\* client.rs 760-851: the request built over such a cache for X's coordinate
ProcessRequest(cache) ==
    [repo_coordinates |->
        { [c |-> CX, t |-> IF "a1" \in Ids(cache) THEN 1 ELSE NoTimestamp] },
     proposals |-> { e.id : e \in { x \in cache : event_is_patch_set_root(x) } },
     contributor_profiles |-> {},
     existing_events |-> Ids(cache)]

\* client.rs 413-423: the task of relay r1 has started over the request
ProcessInit ==
    /\ local_cache \in ProcessCacheSamples
    /\ global_cache = { e \in local_cache : e.kind = REPO_REF_KIND }
    /\ relay_store = [r \in RelayUrls |-> {}]
    /\ fallback_relays = {"r1"}
    /\ fpc = "fanout"
    /\ fetch_no = 1
    /\ request = ProcessRequest(local_cache)
    /\ task = [r \in RelayUrls |->
                 IF r = "r1"
                 THEN [NoTask EXCEPT !.pc = "loop",
                                     !.fresh_coordinates = {CX},
                                     !.fresh_proposal_roots = request.proposals]
                 ELSE NoTask]
    /\ finished = <<>>
    /\ fetch_report = EmptyReport
    /\ history = <<>>

\* client.rs 470-481: one event of a response goes through
\* process_fetched_event
ProcessFetchedEvent(r, event) ==
    /\ fpc = "fanout"
    /\ task[r].pc = "loop"
    /\ Cardinality(local_cache) < MaxKept
    /\ event \notin local_cache
    /\ LET t == task[r]
           st == process_fetched_event(event, request,
                    [local |-> local_cache, global |-> global_cache,
                     fresh_coordinates |-> t.fresh_coordinates,
                     fresh_proposal_roots |-> t.fresh_proposal_roots,
                     report |-> t.report])
       IN  /\ local_cache' = st.local
           /\ global_cache' = st.global
           /\ task' = [task EXCEPT ![r].fresh_coordinates = st.fresh_coordinates,
                                   ![r].fresh_proposal_roots = st.fresh_proposal_roots,
                                   ![r].report = st.report]
    /\ UNCHANGED <<relay_store, fallback_relays, fpc, fetch_no, request, finished,
                   fetch_report, history>>
    /\ UNCHANGED <<rrvars, tvars, pvars, lvars, xvars>>

SomeEventFetched == \E event \in ProcessSamples : ProcessFetchedEvent("r1", event)

ProcessNext ==
    \/ SomeEventFetched

InitProcess == ProcessInit /\ TransportIdle /\ RepoRefIdle /\ PushIdle /\ ListIdle /\ HelpersIdle

SpecProcess == InitProcess /\ [][ProcessNext]_vars

InitList == ListInit /\ TransportIdle /\ RepoRefIdle /\ FetchIdle /\ PushIdle /\ HelpersIdle

SpecList == InitList /\ [][ListNext]_vars

InitBuffer ==
    /\ BufferInit /\ MatchIdle /\ BatchIdle /\ JoinIdle /\ FiltersIdle
    /\ TransportIdle /\ RepoRefIdle /\ FetchIdle /\ PushIdle /\ ListIdle
    /\ global_cache = {} /\ local_cache = {}

SpecBuffer == InitBuffer /\ [][BufferNext]_vars

InitFilters ==
    /\ FiltersInit /\ MatchIdle /\ BatchIdle /\ JoinIdle /\ BufferIdle
    /\ FetchInit /\ TransportIdle /\ PushIdle /\ ListIdle
    /\ fallback_relays = {"r1"} /\ seed = {CX} /\ relay_store["r2"] = {}

SpecFilters == InitFilters /\ [][FiltersNext]_vars

InitMatch ==
    /\ MatchInit /\ BatchIdle /\ JoinIdle /\ BufferIdle /\ FiltersIdle
    /\ TransportIdle /\ RepoRefIdle /\ FetchIdle /\ PushIdle
    /\ global_cache = {} /\ local_cache = {}

SpecMatch == InitMatch /\ [][MatchNext]_vars

InitBatch ==
    /\ BatchInit /\ MatchIdle /\ JoinIdle /\ BufferIdle /\ FiltersIdle
    /\ TransportIdle /\ RepoRefIdle /\ FetchIdle /\ PushIdle /\ ListIdle
    /\ global_cache = {} /\ local_cache = {}

SpecBatch == InitBatch /\ [][BatchNext]_vars

InitJoin ==
    /\ JoinInit /\ MatchIdle /\ BatchIdle /\ BufferIdle /\ FiltersIdle
    /\ TransportIdle /\ RepoRefIdle /\ FetchIdle /\ PushIdle /\ ListIdle
    /\ global_cache = {} /\ local_cache = {}

SpecJoin == InitJoin /\ [][JoinNext]_vars

(***************************************************************************)
(* PROPERTIES: transport selector                                          *)
(***************************************************************************)

\* the five phrases of an authentication failure, as the specification lists them
AuthPhrases ==
    { "all authentication attempts failed", "invalid or unknown remote ssh hostkey",
      "no ssh keys found", "Permission to", "Repository not found" }

AuthKinds ==
    {"AuthRequired", "HostKeyMismatch", "NoKeysAvailable", "PermissionDenied",
     "RepoNotVisible"}

\* the message of the error names an authentication failure
IsAuthFailure(error) == \E s \in AuthPhrases : Contains(error.chain[1], s)

Failed(i) == i \in 1..Len(attempts) /\ ~attempts[i].ok

\* the candidate after the i-th one has been tried or is the one tried next
NextCandidateAttempted(i) ==
    \/ Len(attempts) > i /\ attempts[i + 1].protocol = protocols_to_attempt[i + 1]
    \/ Len(attempts) = i /\ tstatus = "trying" /\ pos = i + 1

\* the operation ended at the i-th attempt with that attempt's error
StoppedAt(i) ==
    Len(attempts) = i /\ tstatus = "failed" /\ surfaced = attempts[i].error

AttemptsFollowCandidates ==
    /\ Len(attempts) <= Len(protocols_to_attempt)
    /\ \A i \in 1..Len(attempts) : attempts[i].protocol = protocols_to_attempt[i]

\* C1 as stated: after every failed attempt that is not the last candidate, a
\* non-authentication error makes the driver try the next candidate and an
\* authentication error ends the operation with that error.
C1_FallthroughAsStated ==
    /\ AttemptsFollowCandidates
    /\ \A i \in 1..Len(attempts) :
          Failed(i) =>
             IF IsAuthFailure(attempts[i].error)
             THEN StoppedAt(i)
             ELSE i < Len(protocols_to_attempt) => NextCandidateAttempted(i)

\* C1 amended: the same, except that a non-authentication error of an ssh
\* attempt whose session had authenticated does not lead to the next candidate.
C1_Fallthrough ==
    /\ AttemptsFollowCandidates
    /\ \A i \in 1..Len(attempts) :
          Failed(i) =>
             IF IsAuthFailure(attempts[i].error)
             THEN StoppedAt(i)
             ELSE (i < Len(protocols_to_attempt) /\ ~attempts[i].authenticated)
                     => NextCandidateAttempted(i)

\* C1 witness: https server, read, nothing forced; unauth-https fails with a
\* transport error, ssh with an authentication error, https is never tried.
C1_Witness ==
    /\ server_scheme = "Https" /\ op = "read" /\ forced = NoProtocol
    /\ Len(attempts) = 2
    /\ attempts[1].protocol = "UnauthHttps" /\ attempts[1].error.kind = "TransportError"
    /\ attempts[2].protocol = "Ssh" /\ attempts[2].error.kind = "AuthRequired"
    /\ tstatus = "failed" /\ surfaced.kind = "AuthRequired"

\* an authentication failure is named somewhere in the error's cause chain
HasAuthCause(error) ==
    \E k \in 1..Len(error.chain), s \in AuthPhrases : Contains(error.chain[k], s)

\* C35: an error whose authentication message lies in its cause chain, under
\* an outer context message, is classified as authentication-related: the
\* classifier answers true for it and the attempt that failed with it ends
\* the operation.
C35_WrappedAuthErrors ==
    \A i \in 1..Len(attempts) :
       (Failed(i) /\ HasAuthCause(attempts[i].error)) =>
          /\ error_might_be_authentication_related(attempts[i].error)
          /\ StoppedAt(i)

\* the table of specification 4.7 for a server url with no forced protocol
ProtocolTable(scheme, operation) ==
    IF scheme = "Filesystem" THEN <<"Filesystem">>
    ELSE IF scheme = "Http"
         THEN (IF operation = "read" THEN <<"UnauthHttp", "Ssh", "Http">> ELSE <<"Ssh", "Http">>)
    ELSE IF scheme = "Ftp"
         THEN (IF operation = "read" THEN <<"Ftp", "Ssh">> ELSE <<"Ssh", "Ftp">>)
    ELSE (IF operation = "read" THEN <<"UnauthHttps", "Ssh", "Https">> ELSE <<"Ssh", "Https">>)

\* C2: with no forced protocol the candidate list of a read and of a write is
\* the ordered list of the table, for every server scheme.
C2_ProtocolTable ==
    (tstatus \in {"trying", "success", "failed"} /\ forced = NoProtocol)
        => protocols_to_attempt = ProtocolTable(server_scheme, op)

C2_Witness ==
    /\ tstatus = "trying" /\ forced = NoProtocol
    /\ server_scheme = "Ftp" /\ op = "write"
    /\ protocols_to_attempt = <<"Ssh", "Ftp">>

\* C3 as stated: a forced protocol gives the one-element list [forced] for
\* every server scheme, a filesystem server included.
C3_ForcedAsStated ==
    (tstatus \in {"trying", "success", "failed"} /\ forced # NoProtocol)
        => protocols_to_attempt = <<forced>>

\* C3 amended: a forced protocol gives [forced] for every server scheme but
\* filesystem; a filesystem server gives [filesystem] whatever is forced.
C3_Forced ==
    (tstatus \in {"trying", "success", "failed"} /\ forced # NoProtocol)
        => protocols_to_attempt =
              IF server_scheme = "Filesystem" THEN <<"Filesystem">> ELSE <<forced>>

C3_Witness ==
    /\ tstatus = "trying" /\ forced = "Ssh" /\ server_scheme = "Http"
    /\ protocols_to_attempt = <<"Ssh">>

\* C4: an error is classified as authentication-related exactly when its
\* message holds one of the five phrases (for an error that is not wrapped:
\* exactly when it is one of the five authentication kinds), and the
\* fetch/list predicate and the push predicate agree on every error.
C4_Classification ==
    \A i \in 1..Len(attempts) :
        Failed(i) =>
            LET e == attempts[i].error
            IN  /\ error_might_be_authentication_related(e) <=> IsAuthFailure(e)
                /\ Len(e.chain) = 1 =>
                      (error_might_be_authentication_related(e) <=> e.kind \in AuthKinds)
                /\ fetch_or_list_error_is_not_authentication_failure(e)
                      = push_error_is_not_authentication_failure(e)
                /\ fetch_or_list_error_is_not_authentication_failure(e)
                      = ~IsAuthFailure(e)

C4_Witness ==
    /\ Len(attempts) = 2
    /\ attempts[1].error.chain = <<"repository not found in pack index">>
    /\ attempts[2].error.chain = <<"remote: Repository not found.">>
    /\ tstatus = "failed"

\* C5: once an ssh attempt has authenticated and then failed, the operation
\* ends there: no later candidate is tried, and the authenticated http/https
\* candidate is not among the attempts of that read.
C5_SshPin ==
    \A i \in 1..Len(attempts) :
        (Failed(i) /\ attempts[i].protocol = "Ssh" /\ attempts[i].authenticated) =>
            /\ StoppedAt(i)
            /\ (op = "read" /\ forced = NoProtocol) =>
                  \A j \in 1..Len(attempts) : attempts[j].protocol \notin {"Http", "Https"}

C5_Witness ==
    /\ op = "read" /\ forced = NoProtocol /\ server_scheme = "Http"
    /\ Len(attempts) = 2
    /\ attempts[2].protocol = "Ssh" /\ attempts[2].authenticated /\ ~attempts[2].ok
    /\ tstatus = "failed"

(***************************************************************************)
(* PROPERTIES: fetch orchestrator                                          *)
(***************************************************************************)

\* C6 as stated: the loop of fetch_all_from_relay ends after finitely many
\* rounds for every request and every set of events the relay holds.  The
\* answer of the relay and the fresh sets a round leaves depend only on the
\* fresh sets the round started with (the request and the relay's events do
\* not change), so a loop that ends never starts two rounds with the same
\* fresh sets.
C6_FetchLoopTerminates ==
    \A r \in RelayUrls :
        \A i, j \in 1..Len(task[r].queries) :
            i < j => task[r].queries[i] # task[r].queries[j]

\* C7 as stated: after a fetch_all in which every relay task returned its
\* report, a second fetch_all over the same relays, which hold the same
\* events, returns the empty FetchReport and leaves the local cache as the
\* first fetch_all left it.
C7_FetchFixpoint ==
    (/\ Len(history) >= 2
     /\ history[1].failed = {} /\ history[2].failed = {}
     /\ history[1].relays = history[2].relays)
        => /\ history[2].report = EmptyReport
           /\ history[2].local = history[1].local

\* the reports fetch_all_from_relay can return for relay r when it runs the
\* request alone, over caches of its own, within `rounds` rounds
RECURSIVE SoloReports(_, _, _, _, _)
SoloReports(r, fresh_coordinates, fresh_proposal_roots, report, rounds) ==
    IF rounds = 0 THEN {}
    ELSE LET matching == query(relay_store[r],
                               get_fetch_filters(fresh_coordinates, fresh_proposal_roots, {}))
             after(events) == process_events(events, request,
                                 [local |-> {}, global |-> {},
                                  fresh_coordinates |-> {}, fresh_proposal_roots |-> {},
                                  report |-> report])
             ends(st) == IF st.fresh_coordinates = {} /\ st.fresh_proposal_roots = {}
                         THEN {st.report}
                         ELSE SoloReports(r, st.fresh_coordinates, st.fresh_proposal_roots,
                                          st.report, rounds - 1)
         IN  ends(after(matching)) \cup ends(after(Reverse(matching)))

OkRelays == { r \in RelayUrls : task[r].pc = "ok" }

FailedRelays == { r \in RelayUrls : task[r].pc = "err" }

\* C13: the report of every relay task that returned Ok is one that relay
\* gives when asked alone, whatever the other relays did (failed at any round
\* or not); and once every task ended fetch_all returns the report made of
\* the reports of the Ok tasks only: what a failed task had found before it
\* failed is not in it.
C13_RelayFailureIsolation ==
    /\ \A r \in OkRelays :
          task[r].report \in
              SoloReports(r, { ct.c : ct \in request.repo_coordinates }, request.proposals,
                          EmptyReport, MaxRounds)
    /\ fpc = "returned" =>
          /\ history[Len(history)].failed = FailedRelays
          /\ fetch_report.proposals = UNION { task[r].report.proposals : r \in OkRelays }
          /\ fetch_report.commits = UNION { task[r].report.commits : r \in OkRelays }
          /\ fetch_report.statuses = UNION { task[r].report.statuses : r \in OkRelays }
          /\ SeqToSet(fetch_report.repo_coordinates) =
                UNION { SeqToSet(task[r].report.repo_coordinates) : r \in OkRelays }

\* C13 witness: r1 found a proposal and then failed, r2 returned its report,
\* and fetch_all returned r2's findings
C13_Witness ==
    /\ fpc = "returned"
    /\ task["r1"].pc = "err" /\ task["r1"].report.proposals = {"p0"}
    /\ task["r2"].pc = "ok" /\ task["r2"].report.proposals = {"rv"}
    /\ fetch_report.proposals = {"rv"}

\* the union of a set-valued field over the relay tasks that returned Ok
FieldUnion(field) == UNION { task[r].report[field] : r \in OkRelays }

\* what consolidation gives for the Ok reports taken in the other order
OtherOrder == consolidate_fetch_reports(OkReports(Reverse(finished)))

\* the fields consolidate_fetch_reports merges: each is the union over the Ok
\* reports, whatever the order the tasks ended in, and a report given by both
\* relays counts once
MergedFieldsAreUnions ==
    fpc = "returned" =>
       /\ SeqToSet(fetch_report.repo_coordinates) =
             UNION { SeqToSet(task[r].report.repo_coordinates) : r \in OkRelays }
       /\ fetch_report.proposals = FieldUnion("proposals")
       /\ fetch_report.commits = FieldUnion("commits")
       /\ fetch_report.statuses = FieldUnion("statuses")
       /\ SeqToSet(OtherOrder.repo_coordinates) = SeqToSet(fetch_report.repo_coordinates)
       /\ SeqToSet(OtherOrder.updated_repo_announcements) =
             SeqToSet(fetch_report.updated_repo_announcements)
       /\ \A field \in {"proposals", "commits", "statuses", "contributor_profiles"} :
             OtherOrder[field] = fetch_report[field]
       /\ (OkRelays = RelayUrls /\ task["r1"].report = task["r2"].report) =>
             fetch_report = consolidate_fetch_reports(<<task["r1"].report>>)

\* C14: every field of the consolidated report (new maintainer coordinates,
\* proposals, commits, statuses, contributor profiles) is the union of that
\* field over the reports of the relays that succeeded, whatever the order
\* the tasks ended in and with a repeated report counting once.
C14_ConsolidationByUnion ==
    /\ MergedFieldsAreUnions
    /\ fpc = "returned" =>
          fetch_report.contributor_profiles = FieldUnion("contributor_profiles")

\* the updated-announcement entries of the relay tasks that returned Ok
OkUpdates ==
    UNION { SeqToSet(task[r].report.updated_repo_announcements) : r \in OkRelays }

\* C15: in the consolidated report every coordinate appears at most once
\* among the updated-announcement entries, the coordinates are those the
\* successful relays reported, and the timestamp of each is the greatest
\* one reported for it by any successful relay, several entries of one
\* relay report included.
C15_UpdatedAnnouncements ==
    fpc = "returned" =>
       LET updated == fetch_report.updated_repo_announcements
       IN  /\ \A i, j \in 1..Len(updated) : updated[i].c = updated[j].c => i = j
           /\ { u.c : u \in SeqToSet(updated) } = { u.c : u \in OkUpdates }
           /\ \A u \in SeqToSet(updated) :
                  /\ u \in OkUpdates
                  /\ \A other \in OkUpdates : other.c = u.c => other.t <= u.t

\* C15 witness: one relay reported X's coordinate twice (3, then 2) and Y's
\* once, the other reported Y's with a later timestamp and X's with an
\* earlier one, the other relay ending first
C15_Witness ==
    /\ fpc = "returned"
    /\ OkRelays = RelayUrls
    /\ finished = <<"r2", "r1">>
    /\ task["r1"].report.updated_repo_announcements =
          <<Updated(CX, 3), Updated(CY, 1), Updated(CX, 2)>>
    /\ task["r2"].report.updated_repo_announcements = <<Updated(CY, 4), Updated(CX, 1)>>
    /\ fetch_report.updated_repo_announcements = <<Updated(CY, 4), Updated(CX, 3)>>

\* the kinds the global cache mirrors (I3)
MirroredKinds == {REPO_REF_KIND, "Metadata"}

\* the events persisted by the running fetch
NewlyPersisted == { e \in local_cache : e.id \notin request.existing_events }

\* announcements are mirrored and nothing but announcements and profiles is
\* written to the global cache
AnnouncementsMirrored ==
    /\ \A e \in NewlyPersisted : e.kind = REPO_REF_KIND => e \in global_cache
    /\ \A e \in global_cache : e.kind \in MirroredKinds

\* C16: every announcement and every profile (Metadata) event persisted by
\* a fetch is in the global cache too, the author of such a profile event is
\* among the contributor profiles of the report, and no event of another
\* kind is in the global cache.
C16_GlobalMirroring ==
    /\ AnnouncementsMirrored
    /\ \A e \in NewlyPersisted :
          e.kind = "Metadata" =>
             /\ e \in global_cache
             /\ e.pubkey \in task["r1"].report.contributor_profiles

\* how often the coordinate c stands in the sequence of reported coordinates
Occurrences(reported, c) ==
    Cardinality({ i \in 1..Len(reported) : reported[i] = c })

\* the announcements of coordinate c that relay r holds
AnnouncementsAt(r, c) ==
    { e \in relay_store[r] : /\ e.kind = REPO_REF_KIND
                             /\ e.pubkey = c.public_key
                             /\ e.identifier = c.identifier }

\* C31: an event adds to the reports of one fetch_all once: a proposal root
\* is reported by one relay task only (the sibling that receives it later
\* finds it in the local cache), and a task reports a new coordinate no more
\* often than its relay holds announcements of it (an announcement received
\* again in a later round is in the local cache by then).
C31_OnlyNewEventsProcessed ==
    /\ \A r, q \in RelayUrls :
          r # q => task[r].report.proposals \cap task[q].report.proposals = {}
    /\ \A r \in RelayUrls :
          \A i \in 1..Len(task[r].report.repo_coordinates) :
             LET c == task[r].report.repo_coordinates[i]
             IN  Occurrences(task[r].report.repo_coordinates, c)
                    <= Cardinality(AnnouncementsAt(r, c))

\* what the claimed filters select of an event: (a) an announcement of one of
\* the coordinates, (b) a patch or deletion tagged with one of them, (c) a
\* patch, deletion or status that references one of the proposal roots, (d)
\* a profile or relay list of one of the authors
Selected(e, args) ==
    \/ /\ e.kind = REPO_REF_KIND
       /\ Coordinate(e.kind, e.pubkey, e.identifier) \in args.repo_coordinates
    \/ /\ e.kind \in {PATCH_KIND, "EventDeletion"}
       /\ e.a_tags \cap args.repo_coordinates # {}
    \/ /\ e.kind \in {PATCH_KIND, "EventDeletion"} \cup status_kinds
       /\ e.e_tags \cap args.proposal_ids # {}
    \/ /\ e.kind \in {"Metadata", "RelayList"}
       /\ e.pubkey \in args.required_profiles

\* the number of filters claimed: two for the coordinates, one for the
\* proposal roots, one for the authors, each only for a set that is not empty
FiltersClaimed(args) ==
    (IF args.repo_coordinates # {} THEN 2 ELSE 0)
    + (IF args.proposal_ids # {} THEN 1 ELSE 0)
    + (IF args.required_profiles # {} THEN 1 ELSE 0)

\* what relay r answered to the query made with the fresh sets q
Answered(r, q) ==
    { e \in relay_store[r] :
        MatchesAny(e, get_fetch_filters(q.fresh_coordinates, q.fresh_proposal_roots,
                                        q.fresh_authors)) }

\* the coordinates the events of an answer name: their own and those of the
\* maintainers they list
CoordinatesNamed(events) ==
    UNION { {Coordinate(e.kind, e.pubkey, e.identifier)}
            \cup { Coordinate(e.kind, k, e.identifier) : k \in e.maintainers } :
            e \in { x \in events : x.kind = REPO_REF_KIND } }

\* C33: get_fetch_filters returns the two coordinate filters iff the
\* coordinate set is not empty, the filter on proposal roots iff that set is
\* not empty, the filter on authors iff that set is not empty, and nothing
\* else (no filter for three empty sets); together they select the
\* announcements of the coordinates, the patches and deletions tagged with
\* them, the patches, deletions and statuses that reference the roots and
\* the profiles and relay lists of the authors.  Every round of a relay task
\* after its first queries with items found in the answer to the round
\* before it only.
C33_FetchFilters ==
    /\ gpc = "done" =>
          /\ Len(fetch_filters) = FiltersClaimed(filter_args)
          /\ \A e \in ProcessSamples :
                MatchesAny(e, fetch_filters) <=> Selected(e, filter_args)
    /\ \A r \in RelayUrls :
          \A i \in 2..Len(task[r].queries) :
             LET answer == Answered(r, task[r].queries[i - 1])
             IN  /\ task[r].queries[i].fresh_coordinates \subseteq CoordinatesNamed(answer)
                 /\ task[r].queries[i].fresh_proposal_roots
                        \subseteq { e.id : e \in { x \in answer : event_is_patch_set_root(x) } }
                 /\ task[r].queries[i].fresh_authors \subseteq { e.pubkey : e \in answer }

\* get_fetch_filters has returned four filters for three sets that are not
\* empty, and the task of r1 has made a second query, for the proposal root
\* its first answer held
C33_Witness ==
    /\ gpc = "done"
    /\ filter_args.repo_coordinates = {CX, CY}
    /\ filter_args.proposal_ids = {"p0"}
    /\ filter_args.required_profiles = {"X"}
    /\ Len(fetch_filters) = 4
    /\ Len(task["r1"].queries) >= 2
    /\ task["r1"].queries[2].fresh_proposal_roots = {"p0"}

\* the local cache as the fetch_all before the last one left it
CacheBefore == IF Len(history) >= 2 THEN history[Len(history) - 1].local ELSE {}

\* the events the last fetch_all added to the local cache
StoredByFetch == local_cache \ CacheBefore

\* C39: once fetch_all has returned, every proposal root and every
\* announcement of a maintainer not in the request that it added to the local
\* cache is listed in the report it returned, also when the relay task that
\* stored the event failed in a later round.
C39_ReportCoversStored ==
    fpc = "returned" =>
        \A e \in StoredByFetch :
            /\ event_is_patch_set_root(e) => e.id \in fetch_report.proposals
            /\ (e.kind = REPO_REF_KIND /\ ~in_request(request, e.pubkey, e.identifier)) =>
                  Coordinate(e.kind, e.pubkey, e.identifier)
                     \in SeqToSet(fetch_report.repo_coordinates)

\* the proposal roots the task of r1 knows: those of the request and those it
\* has reported
KnownRoots == request.proposals \cup task["r1"].report.proposals

\* C32: a newly persisted non-root patch whose proposal root is known is
\* among the commits of the relay's report, whichever of the two the relay
\* returned first.
C32_PatchAccrual ==
    \A e \in NewlyPersisted :
        (e.kind = PATCH_KIND /\ ~e.root /\ e.e_tags \cap KnownRoots # {}) =>
            e.id \in task["r1"].report.commits

(***************************************************************************)
(* PROPERTIES: repository identity resolver                                *)
(***************************************************************************)

Announcements(cache) == { e \in cache : e.kind = REPO_REF_KIND /\ e.identifier = "demo" }

\* the maintainers reached from `keys` through the announcements of `cache`
RECURSIVE MaintainerClosure(_, _)
MaintainerClosure(keys, cache) ==
    LET next == keys \cup UNION { e.maintainers :
                                   e \in { a \in Announcements(cache) : a.pubkey \in keys } }
    IN  IF next = keys THEN keys ELSE MaintainerClosure(next, cache)

SeedKeys == { c.public_key : c \in seed }

\* C8 as stated: the resolver returns the RepoRef whose maintainer set is the
\* recursive union of the maintainers of the announcements (seed X, X's
\* announcement lists {X, Y}: the set {X, Y}); so every pass of its loop that
\* does not return has discovered a maintainer.
C8_DiscoveryExpansion ==
    /\ (rr_pc = "done" /\ rr_result.ok) =>
          rr_result.maintainers = MaintainerClosure(SeedKeys, global_cache \cup local_cache)
    /\ rr_pc = "loop" => rr_passes <= Cardinality(maintainers \ SeedKeys)

\* the announcements of the two caches at a seed coordinate
SeedAnnouncements ==
    { e \in Announcements(global_cache \cup local_cache) :
        \E c \in seed : c.public_key = e.pubkey /\ c.identifier = e.identifier }

\* C18: get_repo_ref_from_cache returns the error 'no repo events ...' exactly
\* when neither cache holds an announcement at a seed coordinate: with none
\* it returns that error at its first pass and no RepoRef, and with one it
\* returns no error.
C18_RepoNotFound ==
    /\ rr_pc = "done" =>
          /\ rr_result.ok <=> SeedAnnouncements # {}
          /\ ~rr_result.ok => rr_result.error = "no repo events at specified coordinates"
    /\ (rr_pc = "loop" /\ rr_passes >= 1) => SeedAnnouncements # {}

\* C18 witness: the seed is X's coordinate, the caches hold Y's announcement
\* of the same repository and a proposal only, and the resolver failed
C18_Witness ==
    /\ rr_pc = "done"
    /\ ~rr_result.ok
    /\ seed = {CX}
    /\ Ids(global_cache) = {"a2"}
    /\ Ids(local_cache) = {"a2", "p0"}

\* the announcements the resolver read
ReadAnnouncements == { repo_events[i] : i \in 1..Len(repo_events) }

\* the one of a set of events with the greatest created_at
Newest(events) == CHOOSE e \in events : \A x \in events : x.created_at <= e.created_at

\* C34: the RepoRef returned takes its identifier and relays from the
\* announcement with the greatest created_at among those read, and its map
\* of events holds for each maintainer that maintainer's announcement with
\* the greatest created_at.
C34_NewestAnnouncement ==
    (rr_pc = "done" /\ rr_result.ok) =>
        /\ rr_result.identifier = Newest(ReadAnnouncements).identifier
        /\ rr_result.relays = Newest(ReadAnnouncements).relays
        /\ \A entry \in rr_result.events :
              entry.event =
                 Newest({ e \in ReadAnnouncements : e.pubkey = entry.event.pubkey })

\* C40: with no fallback relay and no announcement at the seed coordinates
\* in the caches the relay set of the request is empty, and fetch_all still
\* ends by returning a report or an error: it does not panic.
C40_EmptyRelaySet ==
    (fallback_relays = {} /\ SeedAnnouncements = {}) => fpc # "panicked"

\* how often the event stands in repo_events
TimesRead(e) == Cardinality({ i \in 1..Len(repo_events) : repo_events[i] = e })

\* in how many of the two caches the event is held
Copies(e) == (IF e \in global_cache THEN 1 ELSE 0) + (IF e \in local_cache THEN 1 ELSE 0)

\* C37: get_repo_ref_from_cache terminates: a pass of its loop that does not
\* return has found a maintainer not known before, so there are at most as
\* many such passes as public keys outside the seed; and each cached
\* announcement is taken into account once (once for each cache that holds
\* it).
C37_ResolverTerminates ==
    /\ rr_pc = "loop" => rr_passes <= Cardinality(PublicKeys \ SeedKeys)
    /\ \A e \in global_cache \cup local_cache : TimesRead(e) <= Copies(e)

(***************************************************************************)
(* PROPERTIES: proposal list                                               *)
(***************************************************************************)

\* C19: in every entry of the map get_open_proposals returns the chain is
\* not empty, starts at the patch no other patch of the chain builds on, and
\* each element's parent-commit is the commit of the element after it.
C19_PatchChainLinearity ==
    lpc = "done" =>
       \A entry \in open_proposals :
          /\ entry.chain # <<>>
          /\ \A i \in 1..(Len(entry.chain) - 1) :
                entry.chain[i].parent_commit = entry.chain[i + 1].commit
          /\ \A i \in 1..Len(entry.chain) :
                entry.chain[i].parent_commit # most_recent_patch_commit_id(entry.chain)

\* C19 witness: the cache holds the root P and its patches p1 (base -> c1)
\* and p2 (c1 -> c2); the map is {P: (P, [p2, p1])} and the oid of the
\* proposal's tip is c2
C19_Witness ==
    /\ lpc = "done"
    /\ Ids(local_cache) = {"P", "p1", "p2"}
    /\ \E entry \in open_proposals :
          /\ open_proposals = {entry}
          /\ entry.id = "P"
          /\ entry.root.id = "P"
          /\ Len(entry.chain) = 2
          /\ entry.chain[1].id = "p2"
          /\ entry.chain[2].id = "p1"
          /\ most_recent_patch_commit_id(entry.chain) = "c2"
          /\ proposal_base_commit_id(entry.chain) = "base"

\* the proposal roots of the cache that get_open_proposals considers
CachedProposals ==
    { e \in local_cache : event_is_patch_set_root(e) /\ ~event_is_revision_root(e)
                             /\ CX \in e.a_tags }

\* the status events of the cache tagged with the root
StatusesOf(proposal) ==
    { e \in local_cache : e.kind \in status_kinds /\ proposal.id \in e.e_tags }

\* the kind of the latest of them, Open when there is none
LatestStatus(proposal) ==
    IF StatusesOf(proposal) = {} THEN "GitStatusOpen"
    ELSE (CHOOSE e \in StatusesOf(proposal) :
             \A other \in StatusesOf(proposal) : other.created_at <= e.created_at).kind

\* the patches of the proposal form one chain
HasChain(proposal) == proposal_chain(local_cache, proposal, unloadable).ok

\* C20: a root is in the map get_open_proposals returns only if the latest
\* (greatest created_at) status event tagged with it is Open or it has no
\* status event, every such root whose patches form a chain is in the map,
\* and the map holds nothing but such roots.
C20_StatusByLatest ==
    lpc = "done" =>
       /\ \A proposal \in CachedProposals :
             (\E entry \in open_proposals : entry.id = proposal.id)
                <=> (LatestStatus(proposal) = "GitStatusOpen" /\ HasChain(proposal))
       /\ \A entry \in open_proposals : entry.root \in CachedProposals

\* C20 witness: P was closed and later re-opened and is listed; in the same
\* cache Q was applied and is not
C20_Witness ==
    /\ lpc = "done"
    /\ Ids(local_cache) = {"P", "p1", "Q", "sC", "sO", "sQ"}
    /\ { entry.id : entry \in open_proposals } = {"P"}

\* the proposal is a key of the map get_open_proposals returned
Listed(proposal) == \E entry \in open_proposals : entry.id = proposal.id

\* the status kinds that end a proposal: closed, merged/applied
TerminalKinds == {"GitStatusClosed", "GitStatusApplied"}

\* C21 as stated: a proposal whose chain can be built is a key of the map
\* exactly when no terminal-status event of the cache targets its root.
C21_OpenIffNoTerminalAsStated ==
    lpc = "done" =>
       \A proposal \in CachedProposals :
          HasChain(proposal) =>
             (Listed(proposal) <=>
                 ~\E e \in StatusesOf(proposal) : e.kind \in TerminalKinds)

\* C21 amended: a proposal whose chain can be built is a key of the map
\* exactly when every status event that targets its root and is not Open
\* (closed, applied or draft) is followed by a later Open status event that
\* targets it.
C21_OpenIffReopened ==
    lpc = "done" =>
       \A proposal \in CachedProposals :
          Listed(proposal) <=>
             /\ HasChain(proposal)
             /\ \A e \in StatusesOf(proposal) :
                   e.kind # "GitStatusOpen" =>
                      \E later \in StatusesOf(proposal) :
                         later.kind = "GitStatusOpen" /\ later.created_at > e.created_at

\* C21 witness: P was closed and re-opened and is listed although a closed
\* status targets it; Q has a draft status only and is not listed
C21_Witness ==
    /\ lpc = "done"
    /\ unloadable = {}
    /\ Ids(local_cache) = {"P", "p1", "sC", "sO", "Q", "sD"}
    /\ { entry.id : entry \in open_proposals } = {"P"}

\* the revision roots of the cache
RevisionRoots == { e \in local_cache : event_is_revision_root(e) }

\* C22: no key of the map returned by get_open_proposals or by
\* get_all_proposals is the id of a revision root, and no entry's root event
\* is one.
C22_NoRevisionRoots ==
    \A entry \in open_proposals \cup all_proposals :
       /\ entry.id \notin Ids(RevisionRoots)
       /\ ~event_is_revision_root(entry.root)

\* C22 witness: the cache holds P with its patch and an open revision root
\* of P with a patch of its own; both functions list P only
C22_Witness ==
    /\ lpc = "done" /\ apc = "done"
    /\ unloadable = {}
    /\ Ids(local_cache) = {"P", "p1", "rv", "rp"}
    /\ { entry.id : entry \in open_proposals } = {"P"}
    /\ { entry.id : entry \in all_proposals } = {"P"}

\* the events of the cache that belong to the proposal: its root and the
\* events that reference it
EventsOf(proposal) ==
    { e \in local_cache : e.id = proposal.id \/ proposal.id \in e.e_tags }

\* C30: a proposal whose patch events cannot be loaded or do not form one
\* chain is in neither map, and the maps are the ones returned for the cache
\* without that proposal's events.
C30_SilentSkip ==
    \A proposal \in CachedProposals :
       ~HasChain(proposal) =>
          /\ lpc = "done" =>
                /\ ~Listed(proposal)
                /\ open_proposals =
                      get_open_proposals(local_cache \ EventsOf(proposal), ListCoordinates,
                                         unloadable)
          /\ apc = "done" =>
                /\ proposal.id \notin { entry.id : entry \in all_proposals }
                /\ all_proposals =
                      get_all_proposals(local_cache \ EventsOf(proposal), ListCoordinates,
                                        unloadable)

\* C30 witness: P has two patches on one commit, so no chain can be built
\* for it; both functions return the map that holds Q alone
C30_Witness ==
    /\ lpc = "done" /\ apc = "done"
    /\ Ids(local_cache) = {"P", "p1", "p2", "p2b", "Q"}
    /\ unloadable = {}
    /\ { entry.id : entry \in open_proposals } = {"Q"}
    /\ { entry.id : entry \in all_proposals } = {"Q"}

(***************************************************************************)
(* PROPERTIES: bounded fan-out                                             *)
(***************************************************************************)

\* at most 15 tasks are in flight, and the results are collected (and the
\* report consolidated) only after every task has been started and has
\* ended
FanoutBounded ==
    /\ InFlight <= BufferLimit
    /\ qpc = "done" =>
          started = Len(futures) /\ InFlight = 0 /\ relay_reports = Len(futures)

\* the stream can go on: a task in flight can end, a further task can be
\* started, or everything has been collected
CanGoOn ==
    \/ in_flight.ends > 0
    \/ started < Len(futures) /\ InFlight < BufferLimit
    \/ started = Len(futures) /\ InFlight = 0

\* C26: at most 15 per-relay tasks are in flight, the consolidated report
\* is computed only after all tasks have ended, and every relay is
\* processed: while the stream runs, a task can end or be started, so that
\* no relay waits for ever.
C26_BoundedFanout ==
    /\ FanoutBounded
    /\ qpc = "streaming" => CanGoOn

(***************************************************************************)
(* PROPERTIES: branch lookup                                               *)
(***************************************************************************)

\* the branch each sample reference string names
BranchOf ==
    [ r \in RefstrSamples |->
        CASE r = "refs/heads/fix" -> "fix"
          [] r = "fix" -> "fix"
          [] r = "refs/heads/refs/heads/fix" -> "fix"
          [] r = "refs/heads/pr/fix(P1)" -> "pr/fix(P1)"
          [] r = "refs/heads/pr/fix(P3)" -> "pr/fix(P3)"
          [] r = "refs/heads/main" -> "main"
          [] r = "refs/heads/a/refs/heads/b" -> "a/b" ]

\* the roots of the map that can be named
Nameable == { entry \in open_proposals : entry.root.cover_letter /\ entry.root.named }

\* the name under which the current user sees the entry's proposal
NameSeen(entry) ==
    IF current_user = entry.root.pubkey THEN entry.root.branch_name
    ELSE "pr/" \o entry.root.branch_name \o "(" \o entry.id \o ")"

\* C23: the lookup matches a proposal against the name its author chose
\* exactly when the current user is the author, and against the derived
\* public name for every other user and when nobody is logged in: the entry
\* returned has the looked-up branch as that name, and none is returned
\* only when no entry has.
C23_BranchNameRoundtrip ==
    mpc = "done" =>
       /\ matched # NotFound =>
             /\ matched \in Nameable
             /\ NameSeen(matched) = BranchOf[refstr]
       /\ matched = NotFound =>
             \A entry \in Nameable : NameSeen(entry) # BranchOf[refstr]

\* C23 witness: A looks up the name that A and B both chose; A's proposal is
\* returned, B's is known to A under its public name only
C23_Witness ==
    /\ mpc = "done"
    /\ current_user = "A"
    /\ refstr = "refs/heads/fix"
    /\ { entry.id : entry \in open_proposals } = {"P1", "P3"}
    /\ matched # NotFound /\ matched.id = "P1"

\* C24: the lookup is decided by its inputs: at most one proposal of the
\* map has the looked-up branch name for the current user, so that the
\* entry returned is the only one that could be.
C24_OneProposalPerRefstr ==
    mpc = "done" =>
       \A entry \in find_proposal_and_patches_by_branch_name(refstr, open_proposals,
                                                             current_user) :
          entry = matched

\* the reference string without its leading branches prefix
WithoutPrefix(ref) ==
    IF Len(ref) >= Len("refs/heads/") /\ SubSeq(ref, 1, Len("refs/heads/")) = "refs/heads/"
    THEN SubSeq(ref, Len("refs/heads/") + 1, Len(ref))
    ELSE ref

\* C36: the lookup removes the leading 'refs/heads/' only: the entry
\* returned has, as the name the current user sees, the reference string
\* without its leading prefix, so that 'refs/heads/a/refs/heads/b' does not
\* find a proposal named 'a/b'.
C36_PrefixStripping ==
    mpc = "done" /\ matched # NotFound =>
       NameSeen(matched) = WithoutPrefix(refstr)

(***************************************************************************)
(* PROPERTIES: fetch batch                                                 *)
(***************************************************************************)

\* the sample lines that are fetch commands, with the oid and the reference
\* string they name
FetchLines ==
    { [text |-> "fetch o2 refs/heads/b", oid |-> "o2", refstr |-> "refs/heads/b"],
      [text |-> " fetch  o3   refs/heads/a  ", oid |-> "o3", refstr |-> "refs/heads/a"] }

\* the sample lines that hold nothing but white space
BlankLines == {"", "   "}

IsFetchLine(text) == \E f \in FetchLines : f.text = text

\* the last of the first n lines read that names the reference string, 0
\* when there is none
LastFetchOf(ref, n) ==
    LET at == { i \in 1..n : \E f \in FetchLines : f.text = consumed[i] /\ f.refstr = ref }
    IN  IF at = {} THEN 0 ELSE CHOOSE i \in at : \A j \in at : j <= i

\* the batch after the first n lines read, all of them fetch commands: the
\* initial reference and the ones read, each with the oid named last
BatchOf(n) ==
    LET refs == {initial_refstr}
                  \cup { f.refstr : f \in { g \in FetchLines :
                                               \E i \in 1..n : consumed[i] = g.text } }
        oid_of(ref) ==
            IF LastFetchOf(ref, n) = 0 THEN initial_oid
            ELSE (CHOOSE f \in FetchLines : f.text = consumed[LastFetchOf(ref, n)]).oid
    IN  { [refstr |-> ref, oid |-> oid_of(ref)] : ref \in refs }

\* C25: while fetch lines are read the batch is the initial reference and
\* the references read; the batch is returned at the first blank line (or at
\* the end of the input) and holds the initial reference and every
\* reference read before it; a line that is neither blank nor a fetch
\* command ends the reading with an error and no batch.
C25_FetchBatch ==
    LET n == Len(consumed)
        all_fetch(k) == \A i \in 1..k : IsFetchLine(consumed[i])
    IN  /\ bpc = "reading" => all_fetch(n) /\ batch = BatchOf(n)
        /\ bpc = "returned" =>
              \/ /\ n > 0 /\ consumed[n] \in BlankLines
                 /\ all_fetch(n - 1) /\ batch = BatchOf(n - 1)
              \/ /\ stdin = <<>>
                 /\ all_fetch(n) /\ batch = BatchOf(n)
        /\ bpc = "error" =>
              /\ n > 0 /\ consumed[n] \notin BlankLines /\ ~IsFetchLine(consumed[n])
              /\ all_fetch(n - 1)
              /\ batch = {}

\* C25 witness: two fetch lines, the second naming the initial reference
\* again, then a line of white space: the batch of two references is
\* returned
C25_Witness ==
    /\ bpc = "returned"
    /\ initial_refstr = "refs/heads/a"
    /\ consumed = <<"fetch o2 refs/heads/b", " fetch  o3   refs/heads/a  ", "   ">>
    /\ batch = { [refstr |-> "refs/heads/a", oid |-> "o3"],
                 [refstr |-> "refs/heads/b", oid |-> "o2"] }

(***************************************************************************)
(* PROPERTIES: join_with_and                                               *)
(***************************************************************************)

\* what stands between item k and item k + 1 of n items
SeparatorAfter(k, n) == IF k = n - 1 THEN " and " ELSE ", "

\* where item i of the slice starts in the joined string
RECURSIVE StartOf(_)
StartOf(i) ==
    IF i = 1 THEN 1
    ELSE StartOf(i - 1) + Len(join_items[i - 1])
           + Len(SeparatorAfter(i - 1, Len(join_items)))

\* C27: join_with_and returns "" for no item and the item for one item;
\* otherwise the returned string is the items in input order, each once,
\* with ", " after every item before the last but one and " and " after the
\* last but one, and nothing else.
C27_JoinWithAnd ==
    jpc = "done" =>
       LET n == Len(join_items)
       IN  /\ n = 0 => joined = ""
           /\ n = 1 => joined = join_items[1]
           /\ n >= 1 =>
                 /\ \A i \in 1..n :
                       SubSeq(joined, StartOf(i), StartOf(i) + Len(join_items[i]) - 1)
                          = join_items[i]
                 /\ \A k \in 1..(n - 1) :
                       SubSeq(joined, StartOf(k) + Len(join_items[k]), StartOf(k + 1) - 1)
                          = SeparatorAfter(k, n)
                 /\ Len(joined) = StartOf(n) + Len(join_items[n]) - 1

\* C27 witness: the test of four items
C27_Witness ==
    /\ jpc = "done"
    /\ join_items = <<"apple", "banana", "cherry", "date">>
    /\ joined = "apple, banana, cherry and date"

(***************************************************************************)
(* PROPERTIES: proposal push                                               *)
(***************************************************************************)

\* the outcomes of specification 4.5
PushOutcomes ==
    {"UpToDate", "LocalBehindProposal", "LocalDiverged", "AmendmentsRequireForce",
     "RebaseRequiresForce", "Publish"}

\* the outcome the list of specification 4.5 gives for the chain, the branch
\* tip and the answers of the repository; a failed ancestor test added
ExpectedOutcome ==
    LET chain == most_recent_proposal_patch_chain
    IN  IF chain[1].commit = branch_tip THEN "UpToDate"
        ELSE IF \E i \in 1..Len(chain) : chain[i].parent_commit = branch_tip
             THEN "LocalBehindProposal"
        ELSE IF ahead_behind.ok
             THEN (IF Len(ahead_behind.behind) > 0 THEN "LocalDiverged" ELSE "Publish")
        ELSE IF ~ancestor.ok THEN "Error"
        ELSE IF ancestor.value THEN "AmendmentsRequireForce"
        ELSE "RebaseRequiresForce"

C28_UpToDatePrecedence ==
    (ppc # "idle" /\ most_recent_patch_commit_id(most_recent_proposal_patch_chain) = branch_tip) =>
        /\ ppc = "done"
        /\ outcome = Outcome("UpToDate", 0, "proposal already up-to-date with local branch")
        /\ ahead_behind = NoAnswer
        /\ patch_events = <<>>
        /\ sent = <<>>

\* C28 witness: a forced push of a branch whose tip is the chain's tip commit
C28_Witness ==
    /\ ppc = "done"
    /\ args_force
    /\ Len(most_recent_proposal_patch_chain) = 2
    /\ branch_tip = "c2"
    /\ outcome.kind = "UpToDate"

\* launch asked the repository for ahead/behind and got an error
NoAheadBehind == ppc = "done" /\ ~args_force /\ ahead_behind # NoAnswer /\ ~ahead_behind.ok

\* C29 as stated: in that situation the outcome is AmendmentsRequireForce or
\* RebaseRequiresForce, also when the ancestor test cannot be answered.
C29_AmendOrRebaseAsStated ==
    NoAheadBehind => outcome.kind \in {"AmendmentsRequireForce", "RebaseRequiresForce"}

\* C29 amended: in that situation the outcome is AmendmentsRequireForce when
\* the ancestor test answers that the proposal base is an ancestor of the
\* branch tip, RebaseRequiresForce when it answers that it is not, and the
\* error of the test when the test fails; nothing is generated or sent.
C29_AmendOrRebase ==
    NoAheadBehind =>
        /\ ancestor # NoAnswer
        /\ (ancestor.ok /\ ancestor.value) => outcome.kind = "AmendmentsRequireForce"
        /\ (ancestor.ok /\ ~ancestor.value) => outcome.kind = "RebaseRequiresForce"
        /\ ~ancestor.ok => outcome = Outcome("Error", 0, ancestor.error)
        /\ patch_events = <<>>
        /\ sent = <<>>

\* C29 witness: no ahead/behind relation, the base is not an ancestor of the
\* branch tip, and launch asks for a force push after a rebase
C29_Witness ==
    /\ NoAheadBehind
    /\ ancestor.ok /\ ~ancestor.value
    /\ outcome.kind = "RebaseRequiresForce"

\* C10 as stated: a push of n >= 1 ahead commits sends n patch events, one per
\* commit in order; each references the proposal root, each after the first
\* references the patch before it, and the first references the patch at the
\* tip of the existing chain.
C10_PushAhead ==
    (ppc = "done" /\ outcome = Outcome("Publish", 0, "") /\ Len(ahead) >= 1) =>
        /\ Len(sent) = Len(ahead)
        /\ \A i \in 1..Len(sent) :
              /\ sent[i].commit = ahead[i]
              /\ proposal_root_event \in sent[i].e_tags
              /\ i > 1 => sent[i - 1].id \in sent[i].e_tags
        /\ most_recent_proposal_patch_chain[1].id \in sent[1].e_tags

\* a patch of the chain has the branch tip as its parent-commit
TipIsParentOfPatch ==
    \E i \in 1..Len(most_recent_proposal_patch_chain) :
        most_recent_proposal_patch_chain[i].parent_commit = branch_tip

\* C11: a push without --force of a branch whose tip is the parent-commit of
\* a patch of the chain ends with "proposal is ahead of local branch"
\* (LocalBehindProposal); the repository is not asked for the commits ahead
\* and behind, and no event is generated or sent.
C11_PushBehind ==
    (ppc # "idle" /\ ~args_force /\ TipIsParentOfPatch) =>
        /\ ppc = "done"
        /\ outcome = Outcome("LocalBehindProposal", 0, "proposal is ahead of local branch")
        /\ ahead_behind = NoAnswer
        /\ patch_events = <<>> /\ sent = <<>>

\* C11 witness: chain [q2, q1], branch tip c1 (the parent-commit of q2)
C11_Witness ==
    /\ ppc = "done" /\ ~args_force
    /\ Len(most_recent_proposal_patch_chain) = 2 /\ branch_tip = "c1"
    /\ outcome.kind = "LocalBehindProposal" /\ sent = <<>>

\* C12: with --force and a branch tip that is not the chain tip, launch hands
\* the push to send::launch whatever the relation of branch and chain is (it
\* is never refused and the repository is never asked for that relation);
\* what is sent is a patch set whose first event references the proposal
\* root, and nothing is sent when send::launch fails.
C12_ForcePush ==
    (ppc # "idle" /\ args_force
        /\ most_recent_proposal_patch_chain[1].commit # branch_tip) =>
        /\ ppc = "done"
        /\ outcome.kind = "Force"
        /\ ahead_behind = NoAnswer /\ ancestor = NoAnswer
        /\ outcome.error = "" =>
              /\ Len(sent) >= 1
              /\ proposal_root_event \in sent[1].e_tags
              /\ sent[Len(sent)].commit = branch_tip
              /\ \A i \in 2..Len(sent) : sent[1].id \in sent[i].e_tags
        /\ outcome.error # "" => sent = <<>>

\* C12 witness: a forced push of a branch that is behind the proposal
C12_Witness ==
    /\ ppc = "done" /\ args_force /\ TipIsParentOfPatch
    /\ outcome = Outcome("Force", 0, "")
    /\ Len(sent) = 2 /\ proposal_root_event \in sent[1].e_tags

\* the outcomes that refuse the push
RefusalKinds ==
    {"Error", "UpToDate", "LocalBehindProposal", "LocalDiverged",
     "AmendmentsRequireForce", "RebaseRequiresForce"}

\* C38: when launch ends with one of the refusals (main branch checked out,
\* no matching proposal, no chain, up to date, behind the proposal,
\* diverged, amendments, rebase, or the error of the ancestor test), no
\* login was started, no patch event was generated and nothing was sent:
\* the login and the generation are reached only on the way to publication.
C38_NoPublicationOnRefusal ==
    /\ outcome.kind \in RefusalKinds =>
          ppc = "done" /\ ahead = <<>> /\ patch_events = <<>> /\ sent = <<>>
    /\ ppc \in {"login", "generate"} => outcome.kind = "Publish"
    /\ ppc = "done" => outcome.kind \in RefusalKinds \cup {"Publish", "Force"}

\* C38 witness: the branch is two commits ahead of the chain and one patch
\* of the chain is missing on it; launch refused and published nothing
C38_Witness ==
    /\ ppc = "done"
    /\ ~args_force
    /\ outcome.kind = "LocalDiverged"
    /\ ahead_behind.ok /\ Len(ahead_behind.ahead) = 2
    /\ patch_events = <<>> /\ sent = <<>>

====
